---- MODULE Spec2Model ----
(***************************************************************************)
(* The zendo ETL pipeline: the five stages of the chain (etl/*.py), the    *)
(* two orchestrators that sequence them (etl/orchestration.py and          *)
(* api/main.py), the time-series store (api/db/client.py) and the rolling  *)
(* Pearson correlation (etl/pearson.py).                                   *)
(*                                                                         *)
(* Time is counted in minutes since midnight of day 0; a date is its day   *)
(* number.  The model's day has DayHours hours instead of 24, so that the  *)
(* 15-minute grid of a day stays small; every length of the source that is *)
(* written as 96, 24 h or 23:45 is expressed through HOURS_IN_DAY.         *)
(* Values are integers: irradiance in W/m2, temperature in degrees C,      *)
(* power in kW.                                                            *)
(***************************************************************************)
EXTENDS Integers, Sequences, FiniteSets, TLC

VARIABLES
    now,          \* the wall clock, in minutes (an instant inside an interval)
    apiKey,       \* settings.OPENWEATHER_API_KEY is set
    registry,     \* the customers table, as list_customers() returns it
    irradiance,   \* table irradiance:  rows [loc, ts, irradiance]
    weather,      \* table weather:     rows [loc, ts, temperature]
    temperature,  \* table temperature: rows [loc, ts, temperature]
    consumption,  \* table consumption: rows [customer_id, ts, power]
    production,   \* table production:  rows [customer_id, ts, power]
    pearson,      \* table pearson:     rows [customer_id, ts, irr_prod, temp_cons]
    chain,        \* the chain run in progress (or the last one)
    backfill,     \* the API process: startup backfill, then the periodic job
    runs,         \* chain runs started so far
    faults,       \* failed fetches and store errors so far
    lastRun,      \* what the last stage run did (history)
    xs, ys, r     \* arguments and result of a direct call of _pearson

tables == <<irradiance, weather, temperature, consumption, production, pearson>>
calls  == <<xs, ys, r>>
vars   == <<now, apiKey, registry, irradiance, weather, temperature, consumption,
            production, pearson, chain, backfill, runs, faults, lastRun, xs, ys, r>>

---------------------------------------------------------------------------
(* Bounds of the model *)

DayHours == 1            \* hours of the model's day
MaxDay == 1              \* the clock stays within days 0..MaxDay
MaxRuns == 1             \* chain runs started from the command line / scheduler
MaxFaults == 1           \* failed fetches and store errors in one behaviour
TickIntervals == 3       \* intervals between two instants at which the clock is seen
InstantInInterval == 7   \* minute of its interval at which the clock is read
MantissaBits == 10       \* significand width of the model's floats (53 in a double)
MaxLen == 3              \* longest lists passed to _pearson directly

NULL == "null"           \* no location, no stage

\* Python's None / SQL NULL, and a value that is present
None == << >>
Some(v) == <<v>>

\* target_date = None: no date was given
NoDate == -1

---------------------------------------------------------------------------
(* lib/constants.py, lib/time_util.py *)

MINUTES_IN_HOUR == 60
HOURS_IN_DAY == DayHours
INTERVAL_MINUTES == 15

interval_minutes == INTERVAL_MINUTES
intervals_per_day == (HOURS_IN_DAY * MINUTES_IN_HOUR) \div interval_minutes

DayMinutes == HOURS_IN_DAY * MINUTES_IN_HOUR

\* datetime.combine(d, time.min)
date_to_datetime(d) == d * DayMinutes

\* date.today() and the date of a timestamp
DateOf(t) == t \div DayMinutes
today == DateOf(now)

Min(a, b) == IF a < b THEN a ELSE b
Max(a, b) == IF a > b THEN a ELSE b

\* day_window(day, limit_to_now): (start, end) with end cut to now
day_window(day, limit_to_now) ==
    LET start == date_to_datetime(day)
        end   == start + DayMinutes
    IN  [start |-> start,
         end   |-> IF limit_to_now /\ end > now THEN now ELSE end]

\* range(n) as a sequence 0, 1, .., n-1
Range(n) == [i \in 1..n |-> i - 1]

\* timestamps_for_day / _timestamps_for_day: the grid of a day
timestamps_for_day(day) ==
    [i \in 1..intervals_per_day |-> date_to_datetime(day) + interval_minutes * (i - 1)]

SeqToSet(s) == {s[i] : i \in DOMAIN s}

---------------------------------------------------------------------------
(* The customers registry (api/db/models.py Customer, etl/customers.py) *)

Locations == {"A", "B"}

Registries ==
    { << >>,
      << [customer_id |-> 1, loc |-> "A"], [customer_id |-> 2, loc |-> "B"] >>,
      << [customer_id |-> 1, loc |-> "A"], [customer_id |-> 2, loc |-> "A"] >> }

list_customers == registry

---------------------------------------------------------------------------
(* The time-series store (api/db/client.py).  A table is a set of rows; a   *)
(* bulk upsert is INSERT .. ON CONFLICT (key) DO UPDATE.                    *)

SameLocKey(a, b) == a.loc = b.loc /\ a.ts = b.ts
SameCustKey(a, b) == a.customer_id = b.customer_id /\ a.ts = b.ts

upsert_irradiance_bulk(tbl, rows) ==
    IF rows = {} THEN tbl
    ELSE {x \in tbl : \A n \in rows : ~SameLocKey(x, n)} \cup rows

upsert_weather_bulk(tbl, rows) ==
    IF rows = {} THEN tbl
    ELSE {x \in tbl : \A n \in rows : ~SameLocKey(x, n)} \cup rows

\* called at etl/temperature.py:124; api/db/client.py does not define it.
\* Taken as the keyed overwrite of the other location tables.
upsert_temperature_bulk(tbl, rows) ==
    IF rows = {} THEN tbl
    ELSE {x \in tbl : \A n \in rows : ~SameLocKey(x, n)} \cup rows

upsert_consumption_bulk(tbl, rows) ==
    IF rows = {} THEN tbl
    ELSE {x \in tbl : \A n \in rows : ~SameCustKey(x, n)} \cup rows

upsert_production_bulk(tbl, rows) ==
    IF rows = {} THEN tbl
    ELSE {x \in tbl : \A n \in rows : ~SameCustKey(x, n)} \cup rows

\* a faulty variant: a plain INSERT without ON CONFLICT
upsert_pearson_bulk_insert(tbl, rows) == tbl \cup rows
upsert_pearson_bulk(tbl, rows) ==
    IF rows = {} THEN tbl
    ELSE {x \in tbl : \A n \in rows : ~SameCustKey(x, n)} \cup rows

\* ORDER BY timestamp
RECURSIVE OrderByTimestamp(_)
OrderByTimestamp(S) ==
    IF S = {} THEN << >>
    ELSE LET m == CHOOSE x \in S : \A y \in S : x.ts <= y.ts
         IN  <<m>> \o OrderByTimestamp(S \ {m})

get_irradiance_series(loc, start, end) ==
    OrderByTimestamp({x \in irradiance : x.loc = loc /\ x.ts >= start /\ x.ts <= end})

get_weather_series(loc, start, end) ==
    OrderByTimestamp({x \in weather : x.loc = loc /\ x.ts >= start /\ x.ts <= end})

get_consumption_series(customer_id, start, end) ==
    OrderByTimestamp({x \in consumption : x.customer_id = customer_id /\ x.ts >= start /\ x.ts <= end})

get_production_series(customer_id, start, end) ==
    OrderByTimestamp({x \in production : x.customer_id = customer_id /\ x.ts >= start /\ x.ts <= end})

---------------------------------------------------------------------------
(* The external source (api/clients/openweather.py).  What it holds is      *)
(* fixed; what varies from call to call is whether the call succeeds.       *)

LocNum(loc) == IF loc = "A" THEN 0 ELSE 1

\* W/m2 of the interval starting at ts
ExtGhi(loc, ts) ==
    LET s == ts \div interval_minutes
    IN  100 * ((s * s + 3 * LocNum(loc)) % 7)

\* degrees C of the hour starting at hour_ts
ExtTemp(loc, hour_ts) ==
    LET h == hour_ts \div MINUTES_IN_HOUR
    IN  16 + ((5 * h + 2 * LocNum(loc)) % 8)

\* get_solar_irradiance: the 2xx payloads.  kind "ok" is the full day,
\* "short" lacks the last interval, "empty" has no interval.
get_solar_irradiance(loc, day, kind) ==
    LET n == CASE kind = "ok"    -> intervals_per_day
               [] kind = "short" -> intervals_per_day - 1
               [] OTHER          -> 0
    IN  [date |-> day,
         intervals |->
            [i \in 1..n |->
                [start |-> interval_minutes * (i - 1),
                 ghi   |-> ExtGhi(loc, date_to_datetime(day) + interval_minutes * (i - 1))]]]

\* get_timemachine: the 2xx payloads.  kind "empty" has no data point.
get_timemachine(loc, hour_ts, kind) ==
    [data |-> IF kind = "ok" THEN << [temp |-> ExtTemp(loc, hour_ts)] >> ELSE << >>]

FetchKinds == {"ok", "short", "empty", "error"}
HourKinds == {"ok", "empty", "error"}

---------------------------------------------------------------------------
(* api/simulators/solar.py, with the parameters of etl/production.py.       *)
(* Fixed point: cell temperature in 1/1000 degree, derating in 1/1000.      *)

installed_capacity_kw == 500
performance_ratio_pct == 80       \* 0.80
temp_coefficient_ppm == -4000     \* -0.004 per degree C
NOCT_DELTA_T == 25
G_STC == 1000

\* _cell_temperature, in 1/1000 degree
cell_temperature(ambient_temp, ghi) ==
    1000 * ambient_temp + (1000 * NOCT_DELTA_T * ghi) \div G_STC

\* _temp_derating, in 1/1000
temp_derating(t_cell) ==
    1000 + (temp_coefficient_ppm * (t_cell - 25000)) \div 1000000

\* one sample of SolarSimulator.simulate; temp is None without temperatures
solar_sample(ghi0, temp) ==
    LET ghi    == Max(ghi0, 0)
        p_dc   == (installed_capacity_kw * ghi) \div G_STC
        t_cell == IF temp # None THEN cell_temperature(temp[1], ghi) ELSE 25000
        f_temp == temp_derating(t_cell)
        p_ac   == (p_dc * f_temp * performance_ratio_pct) \div 100000
    IN  Max(p_ac, 0)

\* SolarSimulator.simulate(irradiance, temperatures); temperatures may be None
SolarSimulator_simulate(irr, temperatures) ==
    [i \in DOMAIN irr |->
        solar_sample(irr[i], IF temperatures = None THEN None
                             ELSE Some(temperatures[1][i]))]

---------------------------------------------------------------------------
(* api/simulators/datacenter.py, with the parameters of                     *)
(* etl/consumption.py _simulator_for_customer.  Temperatures in 1/1000      *)
(* degree, PUE in 1/1000.                                                   *)

it_load_kw == 1000
utilisation_pct == 60             \* 0.60
pue_base_milli == 1400            \* 1.40
pue_temp_coeff_milli == 10        \* 0.01 per degree C
temp_setpoint == 20
tau_cooling_minutes == 60         \* 1.0 h
tau_mass_minutes == 360           \* 6.0 h

\* one step of the two lags: the new (t_short, t_long)
dc_step(t_short, t_long, t_amb) ==
    LET ks_num == Min(interval_minutes, tau_cooling_minutes)
        kl_num == Min(interval_minutes, tau_mass_minutes)
    IN  [t_short |-> t_short + (ks_num * (t_amb - t_short)) \div tau_cooling_minutes,
         t_long  |-> t_long  + (kl_num * (t_amb - t_long))  \div tau_mass_minutes]

alpha_pct == 70                   \* 0.70

dc_load(t_short, t_long) ==
    LET t_eff == (alpha_pct * t_short + (100 - alpha_pct) * t_long) \div 100
        pue   == pue_base_milli
                 + (pue_temp_coeff_milli * Max(0, t_eff - 1000 * temp_setpoint)) \div 1000
    IN  (it_load_kw * utilisation_pct * pue) \div 100000

RECURSIVE dc_loop(_, _, _, _)
dc_loop(temps, i, t_short, t_long) ==
    IF i > Len(temps) THEN << >>
    ELSE LET st == dc_step(t_short, t_long, 1000 * temps[i])
         IN  <<dc_load(st.t_short, st.t_long)>> \o dc_loop(temps, i + 1, st.t_short, st.t_long)

\* DatacenterSimulator.simulate(temperatures), t_initial not given
DatacenterSimulator_simulate(temps) ==
    IF temps = << >> THEN << >>
    ELSE dc_loop(temps, 1, 1000 * temps[1], 1000 * temps[1])

---------------------------------------------------------------------------
(* Floating point.  Every quantity _pearson handles is integer-valued here, *)
(* so a float is an integer with at most MantissaBits significant bits and  *)
(* each operation rounds its exact result to the nearest such integer, ties *)
(* to even (IEEE 754 round-to-nearest).                                     *)

Abs(v) == IF v < 0 THEN -v ELSE v

RECURSIVE BitLen(_)
BitLen(n) == IF n = 0 THEN 0 ELSE 1 + BitLen(n \div 2)

RECURSIVE Pow2(_)
Pow2(k) == IF k = 0 THEN 1 ELSE 2 * Pow2(k - 1)

Fl(v) ==
    LET a == Abs(v)
        b == BitLen(a)
    IN  IF b <= MantissaBits THEN v
        ELSE LET ulp == Pow2(b - MantissaBits)
                 q   == a \div ulp
                 rem == a % ulp
                 up  == 2 * rem > ulp \/ (2 * rem = ulp /\ q % 2 = 1)
                 m   == (IF up THEN q + 1 ELSE q) * ulp
             IN  IF v < 0 THEN -m ELSE m

fadd(a, b) == Fl(a + b)
fsub(a, b) == Fl(a - b)
fmul(a, b) == Fl(a * b)

\* sum(seq): left to right from 0
RECURSIVE fsum(_, _, _)
fsum(seq, i, acc) ==
    IF i > Len(seq) THEN acc ELSE fsum(seq, i + 1, fadd(acc, seq[i]))

\* the sign of a product of two floats
SignOfProduct(a, b) ==
    IF a = 0 \/ b = 0 THEN 0
    ELSE IF (a < 0) = (b < 0) THEN 1 ELSE -1

---------------------------------------------------------------------------
(* etl/pearson.py *)

WINDOW == HOURS_IN_DAY * MINUTES_IN_HOUR     \* _WINDOW = timedelta(hours=24)
INTERVAL == interval_minutes                 \* _INTERVAL = timedelta(minutes=15)
EXPECTED_READINGS == intervals_per_day       \* _EXPECTED_READINGS = 96

\* _pearson(xs, ys): None, or the coefficient num / sqrt(den_sq) given by its
\* numerator and the two factors of den_sq
_pearson(a, b) ==
    LET n      == Len(a)
        m      == Min(Len(a), Len(b))                   \* zip stops at the shorter
        sum_x  == fsum(a, 1, 0)
        sum_y  == fsum(b, 1, 0)
        sum_xy == fsum([i \in 1..m |-> fmul(a[i], b[i])], 1, 0)
        sum_x2 == fsum([i \in 1..n |-> fmul(a[i], a[i])], 1, 0)
        sum_y2 == fsum([i \in 1..Len(b) |-> fmul(b[i], b[i])], 1, 0)
        num    == fsub(fmul(n, sum_xy), fmul(sum_x, sum_y))
        den_x  == fsub(fmul(n, sum_x2), fmul(sum_x, sum_x))
        den_y  == fsub(fmul(n, sum_y2), fmul(sum_y, sum_y))
    IN  IF n < 2 THEN None
        ELSE IF SignOfProduct(den_x, den_y) <= 0 THEN None
        ELSE Some([num |-> num, den_x |-> den_x, den_y |-> den_y])

---------------------------------------------------------------------------
(* What a stage run reports: the table it wrote, whether it raised (cause:  *)
(* "config" for a missing setting, "store" for a store error), and the      *)
(* history of the run: the fetches made (req), the calls of the external    *)
(* source in the order made (calls: location and requested day or hour),   *)
(* the fetches that failed or                                              *)
(* were unusable (bad), the rows upserted (wrote), the customers skipped    *)
(* for missing upstream data (gaps), the samples correlated (pairs) and the *)
(* timestamps of the rows the run read from the store (read).              *)

NoRun == [stage |-> "none", date |-> 0, raised |-> FALSE, cause |-> "none",
          req |-> {}, bad |-> {}, wrote |-> {}, gaps |-> {}, pairs |-> {},
          read |-> {}, calls |-> << >>]

Result(tbl, h) == [tbl |-> tbl, h |-> h]

\* the outcomes of a stage's fetches: at most `budget` of them not "ok"
Outcomes(Requests, BadKinds, budget) ==
    UNION { { [q \in Requests |-> IF q \in B THEN g[q] ELSE "ok"] : g \in [B -> BadKinds] }
            : B \in {B \in SUBSET Requests : Cardinality(B) <= budget} }

---------------------------------------------------------------------------
(* etl/irradiance.py *)

\* _current_interval_cutoff: the start of the current interval
_current_interval_cutoff == (now \div interval_minutes) * interval_minutes

\* _parse_intervals: (timestamp, ghi) of every interval of the payload
_parse_intervals(response) ==
    [i \in DOMAIN response.intervals |->
        [ts  |-> date_to_datetime(response.date) + response.intervals[i].start,
         ghi |-> response.intervals[i].ghi]]

\* the body of the loop over customers, from customer i on
RECURSIVE irradiance_loop(_, _, _, _, _, _, _, _)
irradiance_loop(target_date, cutoff, kind, crash, i, seen, tbl, h) ==
    IF i > Len(list_customers) THEN Result(tbl, h)
    ELSE
      LET loc == list_customers[i].loc
          h1  == [h EXCEPT !.req = @ \cup {loc},
                           !.calls = Append(@, <<loc, target_date>>)]
          bad == [h1 EXCEPT !.bad = @ \cup {loc}]
          parsed   == _parse_intervals(get_solar_irradiance(loc, target_date, kind[loc]))
          Before(x) == x.ts <= cutoff[1]
          readings == IF cutoff # None THEN SelectSeq(parsed, Before) ELSE parsed
          rows == {[loc |-> loc, ts |-> readings[k].ts, irradiance |-> readings[k].ghi]
                     : k \in DOMAIN readings}
      IN  IF loc \in seen
            THEN irradiance_loop(target_date, cutoff, kind, crash, i + 1, seen, tbl, h)
          ELSE IF kind[loc] = "error"
            THEN irradiance_loop(target_date, cutoff, kind, crash, i + 1,
                                 seen \cup {loc}, tbl, bad)
          ELSE IF cutoff = None /\ Len(readings) # intervals_per_day
            THEN irradiance_loop(target_date, cutoff, kind, crash, i + 1,
                                 seen \cup {loc}, tbl, bad)
          ELSE IF readings = << >>
            THEN irradiance_loop(target_date, cutoff, kind, crash, i + 1,
                                 seen \cup {loc}, tbl, bad)
          ELSE IF crash = loc
            THEN Result(tbl, [h1 EXCEPT !.raised = TRUE, !.cause = "store"])
          ELSE irradiance_loop(target_date, cutoff, kind, crash, i + 1, seen \cup {loc},
                               upsert_irradiance_bulk(tbl, rows),
                               [h1 EXCEPT !.wrote = @ \cup rows])

\* a faulty variant: the cutoff is applied to every date, so the count of a
\* past date's readings is never checked
run_irradiance_always_trimmed(target_date, kind, crash) ==
    LET h0       == [NoRun EXCEPT !.stage = "irradiance", !.date = target_date]
        cutoff   == Some(_current_interval_cutoff)
    IN  IF ~apiKey THEN Result(irradiance, [h0 EXCEPT !.raised = TRUE, !.cause = "config"])
        ELSE IF list_customers = << >> THEN Result(irradiance, h0)
        ELSE irradiance_loop(target_date, cutoff, kind, crash, 1, {}, irradiance, h0)
\* run(target_date): kind[loc] is the outcome of the fetch for loc, crash the
\* location at whose upsert the store raises (NULL: none; in the stages that
\* loop over customers, the index of the customer, 0: none)
run_irradiance(target_date, kind, crash) ==
    LET h0       == [NoRun EXCEPT !.stage = "irradiance", !.date = target_date]
        is_today == target_date = today
        cutoff   == IF is_today THEN Some(_current_interval_cutoff) ELSE None
    IN  IF ~apiKey THEN Result(irradiance, [h0 EXCEPT !.raised = TRUE, !.cause = "config"])
        ELSE IF list_customers = << >> THEN Result(irradiance, h0)
        ELSE irradiance_loop(target_date, cutoff, kind, crash, 1, {}, irradiance, h0)

---------------------------------------------------------------------------
(* etl/weather.py *)

\* the customers' locations in the order of their first customer (the keys
\* of the dict comprehension)
RECURSIVE UniqueLocations(_, _)
UniqueLocations(i, acc) ==
    IF i > Len(list_customers) THEN acc
    ELSE IF list_customers[i].loc \in SeqToSet(acc) THEN UniqueLocations(i + 1, acc)
    ELSE UniqueLocations(i + 1, Append(acc, list_customers[i].loc))

_floor_to_hour(dt) == (dt \div MINUTES_IN_HOUR) * MINUTES_IN_HOUR

\* a faulty variant: the grid has a step of two intervals
_build_timestamps_coarse(start, end) ==
    IF start > end THEN << >>
    ELSE [i \in 1..((end - start) \div (2 * interval_minutes) + 1) |->
            start + 2 * interval_minutes * (i - 1)]
\* _build_timestamps(start, end): start, start + 15 min, .. while <= end
_build_timestamps(start, end) ==
    IF start > end THEN << >>
    ELSE [i \in 1..((end - start) \div interval_minutes + 1) |->
            start + interval_minutes * (i - 1)]

\* DatabaseClient.get_last_weather_timestamp: the latest timestamp stored
\* for the location, None if there is no row
get_last_weather_timestamp(tbl, loc) ==
    LET stored == {x.ts : x \in {y \in tbl : y.loc = loc}}
    IN  IF stored = {} THEN None
        ELSE Some(CHOOSE t \in stored : \A u \in stored : u <= t)

\* step 1 of the loop over locations: the window to fetch.  With a target
\* date, the day cut to now; without one, from the slot after the last stored
\* row (or from BACKFILL_START_DATE) until now
fetch_window(target_date, loc, tbl) ==
    IF target_date # NoDate THEN day_window(target_date, TRUE)
    ELSE LET last_ts == get_last_weather_timestamp(tbl, loc)
         IN  [start |-> IF last_ts # None THEN last_ts[1] + interval_minutes
                        ELSE date_to_datetime(backfill.start[1]),
              end   |-> now]

\* the hours the stage fetches for a location, and the requests it makes
WeatherHours(target_date, loc) ==
    LET w == fetch_window(target_date, loc, weather)
    IN  IF w.start >= w.end THEN {}
        ELSE {_floor_to_hour(t) : t \in SeqToSet(_build_timestamps(w.start, w.end))}

WeatherRequests(target_date) ==
    IF target_date = NoDate /\ backfill.start = None THEN {}
    ELSE UNION {{<<loc, hr>> : hr \in WeatherHours(target_date, loc)}
                  : loc \in SeqToSet(UniqueLocations(1, << >>))}

\* a faulty variant: one failed hour drops the whole location
weather_rows_whole_location(loc, timestamps, kind) ==
    IF \E t \in SeqToSet(timestamps) : kind[<<loc, _floor_to_hour(t)>>] # "ok"
      THEN {}
      ELSE {[loc |-> loc, ts |-> t,
             temperature |-> get_timemachine(loc, _floor_to_hour(t), "ok").data[1].temp]
               : t \in SeqToSet(timestamps)}
\* the rows of one location: every hour whose fetch gave a data point, fanned
\* out to the slots of that hour
weather_rows(loc, timestamps, kind) ==
    {[loc |-> loc, ts |-> t,
      temperature |-> get_timemachine(loc, _floor_to_hour(t), "ok").data[1].temp]
        : t \in {t \in SeqToSet(timestamps) :
                    /\ kind[<<loc, _floor_to_hour(t)>>] # "error"
                    /\ get_timemachine(loc, _floor_to_hour(t),
                                       kind[<<loc, _floor_to_hour(t)>>]).data # << >>}}

\* the keys of unique_hours in ascending order: the hours of the grid, each
\* once
unique_hours(timestamps) ==
    LET hours == {_floor_to_hour(t) : t \in SeqToSet(timestamps)}
        RECURSIVE Sorted(_)
        Sorted(S) == IF S = {} THEN << >>
                     ELSE LET m == CHOOSE x \in S : \A y \in S : x <= y
                          IN  <<m>> \o Sorted(S \ {m})
    IN  Sorted(hours)

RECURSIVE weather_loop(_, _, _, _, _, _, _)
weather_loop(target_date, kind, crash, locs, i, tbl, h) ==
    IF i > Len(locs) THEN Result(tbl, h)
    ELSE
      LET loc == locs[i]
          w   == fetch_window(target_date, loc, tbl)
          timestamps == _build_timestamps(w.start, w.end)
          hours == {_floor_to_hour(t) : t \in SeqToSet(timestamps)}
          rows  == weather_rows(loc, timestamps, kind)
          h1 == [h EXCEPT !.req = @ \cup {<<loc, hr>> : hr \in hours},
                          !.calls = @ \o [k \in DOMAIN unique_hours(timestamps) |->
                                             <<loc, unique_hours(timestamps)[k]>>],
                          !.bad = @ \cup {<<loc, hr>> : hr \in {x \in hours :
                                      kind[<<loc, x>>] # "ok"}}]
      IN  IF w.start >= w.end
            THEN weather_loop(target_date, kind, crash, locs, i + 1, tbl, h)
          ELSE IF rows = {}
            THEN weather_loop(target_date, kind, crash, locs, i + 1, tbl, h1)
          ELSE IF crash = loc
            THEN Result(tbl, [h1 EXCEPT !.raised = TRUE, !.cause = "store"])
          ELSE weather_loop(target_date, kind, crash, locs, i + 1,
                            upsert_weather_bulk(tbl, rows),
                            [h1 EXCEPT !.wrote = @ \cup rows])

\* run(target_date): kind[<<loc, hour>>] is the outcome of that hour's fetch
run_weather(target_date, kind, crash) ==
    LET h0 == [NoRun EXCEPT !.stage = "weather", !.date = target_date]
    IN  IF ~apiKey THEN Result(weather, [h0 EXCEPT !.raised = TRUE, !.cause = "config"])
        ELSE IF list_customers = << >> THEN Result(weather, h0)
        ELSE IF backfill.start = None            \* date.fromisoformat raises
          THEN Result(weather, [h0 EXCEPT !.raised = TRUE, !.cause = "config"])
        ELSE weather_loop(target_date, kind, crash, UniqueLocations(1, << >>), 1,
                          weather, h0)

---------------------------------------------------------------------------
(* etl/temperature.py (the first stage of the chain of api/main.py) *)

\* WeatherSimulatorClient.get_temperature_series for one day: one value per
\* interval; kind "short" is a series of another length
get_temperature_series(loc, day, kind) ==
    LET n == IF kind = "ok" THEN intervals_per_day ELSE intervals_per_day - 1
    IN  [i \in 1..n |->
            ExtTemp(loc, _floor_to_hour(date_to_datetime(day) + interval_minutes * (i - 1)))]

RECURSIVE temperature_loop(_, _, _, _, _, _)
temperature_loop(target_date, kind, crash, i, tbl, h) ==
    IF i > Len(list_customers) THEN Result(tbl, h)
    ELSE
      LET c   == list_customers[i]
          timestamps   == timestamps_for_day(target_date)
          temperatures == get_temperature_series(c.loc, target_date, kind[i])
          rows == {[loc |-> c.loc, ts |-> timestamps[k], temperature |-> temperatures[k]]
                     : k \in 1..Min(Len(timestamps), Len(temperatures))}
          h1  == [h EXCEPT !.req = @ \cup {i},
                           !.calls = Append(@, <<c.loc, target_date>>)]
          bad == [h1 EXCEPT !.bad = @ \cup {i}]
      IN  IF kind[i] = "error"
            THEN temperature_loop(target_date, kind, crash, i + 1, tbl, bad)
          ELSE IF Len(temperatures) # Len(timestamps)
            THEN temperature_loop(target_date, kind, crash, i + 1, tbl, bad)
          ELSE IF crash = i
            THEN Result(tbl, [h1 EXCEPT !.raised = TRUE, !.cause = "store"])
          ELSE temperature_loop(target_date, kind, crash, i + 1,
                                upsert_temperature_bulk(tbl, rows),
                                [h1 EXCEPT !.wrote = @ \cup rows])

\* run(target_date): kind[i] is the outcome of the fetch for the i-th customer
run_temperature(target_date, kind, crash) ==
    LET h0 == [NoRun EXCEPT !.stage = "temperature", !.date = target_date]
    IN  IF ~apiKey THEN Result(temperature, [h0 EXCEPT !.raised = TRUE, !.cause = "config"])
        ELSE temperature_loop(target_date, kind, crash, 1, temperature, h0)

---------------------------------------------------------------------------
(* etl/consumption.py *)

RECURSIVE consumption_loop(_, _, _, _, _)
consumption_loop(target_date, crash, i, tbl, h) ==
    IF i > Len(list_customers) THEN Result(tbl, h)
    ELSE
      LET customer     == list_customers[i]
          window_start == date_to_datetime(target_date)
          window_end   == date_to_datetime(target_date)
                          + (HOURS_IN_DAY - 1) * MINUTES_IN_HOUR + 45
          weather_rows_ == get_weather_series(customer.loc, window_start, window_end)
          temperatures == [k \in DOMAIN weather_rows_ |-> weather_rows_[k].temperature]
          timestamps   == [k \in DOMAIN weather_rows_ |-> weather_rows_[k].ts]
          loads        == DatacenterSimulator_simulate(temperatures)
          rows == {[customer_id |-> customer.customer_id, ts |-> timestamps[k],
                    power |-> loads[k]] : k \in 1..Min(Len(timestamps), Len(loads))}
          hr == [h EXCEPT !.read = @ \cup SeqToSet(timestamps)]
      IN  IF weather_rows_ = << >>
            THEN consumption_loop(target_date, crash, i + 1, tbl,
                                  [hr EXCEPT !.gaps = @ \cup {customer.customer_id}])
          ELSE IF Len(loads) # Len(timestamps)
            THEN consumption_loop(target_date, crash, i + 1, tbl, hr)
          ELSE IF crash = i
            THEN Result(tbl, [hr EXCEPT !.raised = TRUE, !.cause = "store"])
          ELSE consumption_loop(target_date, crash, i + 1,
                                upsert_consumption_bulk(tbl, rows),
                                [hr EXCEPT !.wrote = @ \cup rows])

\* run(target_date); crash is the customer at whose upsert the store raises
run_consumption(target_date, crash) ==
    LET h0 == [NoRun EXCEPT !.stage = "consumption", !.date = target_date]
    IN  IF list_customers = << >> THEN Result(consumption, h0)
        ELSE consumption_loop(target_date, crash, 1, consumption, h0)

---------------------------------------------------------------------------
(* etl/production.py *)

\* a faulty variant: the window starts one day early
_day_window_from_eve(day) ==
    [start |-> date_to_datetime(day - 1),
     end   |-> date_to_datetime(day) + (HOURS_IN_DAY - 1) * MINUTES_IN_HOUR + 45]
\* _day_window(day): (start, end) of the day's grid
_day_window(day) ==
    [start |-> date_to_datetime(day),
     end   |-> date_to_datetime(day) + (HOURS_IN_DAY - 1) * MINUTES_IN_HOUR + 45]

\* the dict comprehension of _map_weather_temps: hour -> temperature of the
\* last row of that hour
temp_by_hour(rows) ==
    [hr \in {_floor_to_hour(rows[k].ts) : k \in DOMAIN rows} |->
        LET last == CHOOSE k \in DOMAIN rows :
                        /\ _floor_to_hour(rows[k].ts) = hr
                        /\ \A j \in DOMAIN rows : _floor_to_hour(rows[j].ts) = hr => j <= k
        IN  rows[last].temperature]

\* _map_weather_temps(weather_rows, timestamps): None if any hour is missing
_map_weather_temps(rows, timestamps) ==
    IF rows = << >> THEN None
    ELSE LET by_hour == temp_by_hour(rows)
         IN  IF \E k \in DOMAIN timestamps : _floor_to_hour(timestamps[k]) \notin DOMAIN by_hour
               THEN None
             ELSE Some([k \in DOMAIN timestamps |-> by_hour[_floor_to_hour(timestamps[k])]])

RECURSIVE production_loop_any_count(_, _, _, _, _)
\* a faulty variant: the number of irradiance readings is not checked
production_loop_any_count(target_date, crash, i, tbl, h) ==
    IF i > Len(list_customers) THEN Result(tbl, h)
    ELSE
      LET c  == list_customers[i]
          w  == _day_window(target_date)
          timestamps      == timestamps_for_day(target_date)
          irradiance_rows == get_irradiance_series(c.loc, w.start, w.end)
          irr             == [k \in DOMAIN irradiance_rows |-> irradiance_rows[k].irradiance]
          weather_rows_   == get_weather_series(c.loc, w.start, w.end)
          temperatures    == _map_weather_temps(weather_rows_, timestamps)
          power_series    == SolarSimulator_simulate(irr, temperatures)
          rows == {[customer_id |-> c.customer_id, ts |-> timestamps[k],
                    power |-> power_series[k]]
                      : k \in 1..Min(Len(timestamps), Len(power_series))}
          hr  == [h EXCEPT !.read = @ \cup {irradiance_rows[k].ts : k \in DOMAIN irradiance_rows}
                                     \cup {weather_rows_[k].ts : k \in DOMAIN weather_rows_}]
          gap == [hr EXCEPT !.gaps = @ \cup {c.customer_id}]
      IN  IF irradiance_rows = << >>
            THEN production_loop_any_count(target_date, crash, i + 1, tbl, gap)
          ELSE IF crash = i
            THEN Result(tbl, [hr EXCEPT !.raised = TRUE, !.cause = "store"])
          ELSE production_loop_any_count(target_date, crash, i + 1,
                               upsert_production_bulk(tbl, rows),
                               [hr EXCEPT !.wrote = @ \cup rows])

RECURSIVE production_loop(_, _, _, _, _)
\* the body of the loop over customers, from customer i on
production_loop(target_date, crash, i, tbl, h) ==
    IF i > Len(list_customers) THEN Result(tbl, h)
    ELSE
      LET c  == list_customers[i]
          w  == _day_window(target_date)
          timestamps      == timestamps_for_day(target_date)
          irradiance_rows == get_irradiance_series(c.loc, w.start, w.end)
          irr             == [k \in DOMAIN irradiance_rows |-> irradiance_rows[k].irradiance]
          weather_rows_   == get_weather_series(c.loc, w.start, w.end)
          temperatures    == _map_weather_temps(weather_rows_, timestamps)
          power_series    == SolarSimulator_simulate(irr, temperatures)
          rows == {[customer_id |-> c.customer_id, ts |-> timestamps[k],
                    power |-> power_series[k]]
                      : k \in 1..Min(Len(timestamps), Len(power_series))}
          hr  == [h EXCEPT !.read = @ \cup {irradiance_rows[k].ts : k \in DOMAIN irradiance_rows}
                                     \cup {weather_rows_[k].ts : k \in DOMAIN weather_rows_}]
          gap == [hr EXCEPT !.gaps = @ \cup {c.customer_id}]
      IN  IF irradiance_rows = << >>
            THEN production_loop(target_date, crash, i + 1, tbl, gap)
          ELSE IF Len(irradiance_rows) # EXPECTED_READINGS
            THEN production_loop(target_date, crash, i + 1, tbl, gap)
          ELSE IF crash = i
            THEN Result(tbl, [hr EXCEPT !.raised = TRUE, !.cause = "store"])
          ELSE production_loop(target_date, crash, i + 1,
                               upsert_production_bulk(tbl, rows),
                               [hr EXCEPT !.wrote = @ \cup rows])

run_production(target_date, crash) ==
    LET h0 == [NoRun EXCEPT !.stage = "production", !.date = target_date]
    IN  IF list_customers = << >> THEN Result(production, h0)
        ELSE production_loop(target_date, crash, 1, production, h0)

---------------------------------------------------------------------------
(* etl/pearson.py run *)

\* a faulty variant: the fetch starts with the target date itself
fetch_start_same_day(target_date) == date_to_datetime(target_date)
fetch_start(target_date) == date_to_datetime(target_date - 1)
fetch_end(target_date) ==
    date_to_datetime(target_date) + (HOURS_IN_DAY - 1) * MINUTES_IN_HOUR + 45

\* a faulty variant: the last slot of the day is left out
output_timestamps_short(target_date) ==
    [i \in 1..(EXPECTED_READINGS - 1) |-> date_to_datetime(target_date) + INTERVAL * (i - 1)]
\* the output timestamps of the day
output_timestamps(target_date) ==
    [i \in 1..EXPECTED_READINGS |-> date_to_datetime(target_date) + INTERVAL * (i - 1)]

window_start(ts) == ts - WINDOW + INTERVAL

\* window_ts: the timestamps of the trailing window of ts, in order
window_ts(ts) ==
    [i \in 1..(WINDOW \div INTERVAL) |-> window_start(ts) + INTERVAL * (i - 1)]

\* {r.timestamp: value for r in rows}: a later row of a timestamp wins
by_ts(rows, value) ==
    [t \in {rows[k].ts : k \in DOMAIN rows} |->
        LET last == CHOOSE k \in DOMAIN rows :
                        rows[k].ts = t /\ \A j \in DOMAIN rows : rows[j].ts = t => j <= k
        IN  rows[last][value]]

\* a faulty variant: the values of a in the window are paired with the values
\* of b by their position
pairs_of_by_position(a, b, window) ==
    LET InA(t) == t \in DOMAIN a
        ka == SelectSeq(window, InA)
        kb == [k \in 1..Cardinality(DOMAIN b) |->
                  CHOOSE t \in DOMAIN b : Cardinality({u \in DOMAIN b : u < t}) = k - 1]
    IN  [k \in 1..Min(Len(ka), Len(kb)) |-> <<a[ka[k]], b[kb[k]]>>]
\* [(a[t], b[t]) for t in window if t in a and t in b]
pairs_of(a, b, window) ==
    LET In(t) == t \in DOMAIN a /\ t \in DOMAIN b
        kept  == SelectSeq(window, In)
    IN  [k \in DOMAIN kept |-> <<a[kept[k]], b[kept[k]]>>]

Firsts(ps)  == [k \in DOMAIN ps |-> ps[k][1]]
Seconds(ps) == [k \in DOMAIN ps |-> ps[k][2]]

\* the value columns of the series
IrrValue   == "irradiance"
PowerValue == "power"
TempValue  == "temperature"

\* the samples of the two variable pairs for customer c at output time ts
samples(c, target_date, ts) ==
    LET fs == fetch_start(target_date)
        fe == fetch_end(target_date)
        irr_by_ts  == by_ts(get_irradiance_series(c.loc, fs, fe), IrrValue)
        prod_by_ts == by_ts(get_production_series(c.customer_id, fs, fe), PowerValue)
        temp_by_ts == by_ts(get_weather_series(c.loc, fs, fe), TempValue)
        cons_by_ts == by_ts(get_consumption_series(c.customer_id, fs, fe), PowerValue)
    IN  [customer_id |-> c.customer_id, ts |-> ts,
         irr_prod  |-> pairs_of(irr_by_ts, prod_by_ts, window_ts(ts)),
         temp_cons |-> pairs_of(temp_by_ts, cons_by_ts, window_ts(ts))]

\* the output row computed from the samples
output_row(sm) ==
    [customer_id |-> sm.customer_id, ts |-> sm.ts,
     irr_prod  |-> _pearson(Firsts(sm.irr_prod), Seconds(sm.irr_prod)),
     temp_cons |-> _pearson(Firsts(sm.temp_cons), Seconds(sm.temp_cons))]

RECURSIVE pearson_loop(_, _, _, _, _)
pearson_loop(target_date, crash, i, tbl, h) ==
    IF i > Len(list_customers) THEN Result(tbl, h)
    ELSE
      LET c  == list_customers[i]
          fs == fetch_start(target_date)
          fe == fetch_end(target_date)
          irr_rows     == get_irradiance_series(c.loc, fs, fe)
          weather_rows_ == get_weather_series(c.loc, fs, fe)
          prod_rows    == get_production_series(c.customer_id, fs, fe)
          cons_rows    == get_consumption_series(c.customer_id, fs, fe)
          hr == [h EXCEPT !.read = @ \cup {irr_rows[k].ts : k \in DOMAIN irr_rows}
                                    \cup {prod_rows[k].ts : k \in DOMAIN prod_rows}
                                    \cup {weather_rows_[k].ts : k \in DOMAIN weather_rows_}
                                    \cup {cons_rows[k].ts : k \in DOMAIN cons_rows}]
          out == output_timestamps(target_date)
          sms == {samples(c, target_date, out[k]) : k \in DOMAIN out}
          output_rows == {output_row(sm) : sm \in sms}
      IN  IF irr_rows = << >> /\ weather_rows_ = << >>
            THEN pearson_loop(target_date, crash, i + 1, tbl,
                              [hr EXCEPT !.gaps = @ \cup {c.customer_id}])
          ELSE IF crash = i
            THEN Result(tbl, [hr EXCEPT !.raised = TRUE, !.cause = "store"])
          ELSE pearson_loop(target_date, crash, i + 1,
                            upsert_pearson_bulk(tbl, output_rows),
                            [hr EXCEPT !.wrote = @ \cup output_rows,
                                      !.pairs = @ \cup sms])

run_pearson(target_date, crash) ==
    LET h0 == [NoRun EXCEPT !.stage = "pearson", !.date = target_date]
    IN  IF list_customers = << >> THEN Result(pearson, h0)
        ELSE pearson_loop(target_date, crash, 1, pearson, h0)

---------------------------------------------------------------------------
(* The two orchestrators.  chain is the run of the chain in progress:      *)
(* kind ("cli": etl/orchestration.py, "api": api/main.py), date, pc (the   *)
(* stage to run next, "idle" before the first run, "done" after a run),    *)
(* at (the clock at the call), started (the stages begun, in order),       *)
(* failed (the stage that raised), gapped (the stages that skipped a       *)
(* customer for missing input) and faulty (a fetch of the run failed or   *)
(* returned less than the full data).                                      *)

\* etl/orchestration.py run_etl_chain: the stages in the order of the code
CliStages == <<"irradiance", "weather", "consumption", "production", "pearson">>

\* api/main.py _run_etl_chain: the stages in the order of the code
ApiStages == <<"temperature", "irradiance", "consumption", "production", "pearson">>

\* a faulty variant: the command-line chain derives production before
\* consumption
StagesOf_reordered(kind) ==
    IF kind = "cli"
      THEN <<"irradiance", "weather", "production", "consumption", "pearson">>
      ELSE ApiStages
StagesOf(kind) == IF kind = "cli" THEN CliStages ELSE ApiStages

IndexOf(seq, x) == CHOOSE k \in DOMAIN seq : seq[k] = x

\* the statement after the try block of stage: the next stage, or the end
StageAfter(kind, stage) ==
    LET k == IndexOf(StagesOf(kind), stage)
    IN  IF k = Len(StagesOf(kind)) THEN "done" ELSE StagesOf(kind)[k + 1]

NoChain == [kind |-> "none", date |-> 0, at |-> 0, pc |-> "idle", started |-> << >>,
            failed |-> NULL, gapped |-> {}, faulty |-> FALSE, dates |-> << >>]

\* the entry of run_etl_chain / _run_etl_chain; dates is the history of the
\* target dates of the stages started, NoDate for a stage run without one
StartChain(kind, target_date) ==
    [kind |-> kind, date |-> target_date, at |-> now, pc |-> StagesOf(kind)[1],
     started |-> << >>, failed |-> NULL, gapped |-> {}, faulty |-> FALSE,
     dates |-> << >>]

\* a faulty variant: a stage that skipped a customer for missing input ends
\* the chain
AfterStage_gap_ends(stage, h) ==
    [chain EXCEPT !.started = Append(@, stage),
                  !.dates   = Append(@, h.date),
                  !.failed  = IF h.raised THEN stage ELSE @,
                  !.gapped  = IF h.gaps # {} THEN @ \cup {stage} ELSE @,
                  !.faulty  = @ \/ h.bad # {},
                  !.pc      = IF h.raised \/ h.gaps # {} THEN "done"
                              ELSE StageAfter(chain.kind, stage)]
\* a faulty variant: the except clause logs and does not return
AfterStage_falls_through(stage, h) ==
    [chain EXCEPT !.started = Append(@, stage),
                  !.dates   = Append(@, h.date),
                  !.failed  = IF h.raised THEN stage ELSE @,
                  !.gapped  = IF h.gaps # {} THEN @ \cup {stage} ELSE @,
                  !.faulty  = @ \/ h.bad # {},
                  !.pc      = StageAfter(chain.kind, stage)]
\* one try block of the chain: the stage ran with history h; on an exception
\* the chain logs and returns, otherwise control falls to the next block
AfterStage(stage, h) ==
    [chain EXCEPT !.started = Append(@, stage),
                  !.dates   = Append(@, h.date),
                  !.failed  = IF h.raised THEN stage ELSE @,
                  !.gapped  = IF h.gaps # {} THEN @ \cup {stage} ELSE @,
                  !.faulty  = @ \/ h.bad # {},
                  !.pc      = IF h.raised THEN "done" ELSE StageAfter(chain.kind, stage)]

ChainFree == chain.pc \in {"idle", "done"}

\* the instants at which the clock is seen: the process starts in the first
\* interval of day 0
Clock == {t \in {interval_minutes * TickIntervals * k + InstantInInterval :
                    k \in 0..((MaxDay + 1) * intervals_per_day)} :
             t < (MaxDay + 1) * DayMinutes}

StartDates == {None} \cup {Some(d) : d \in 0..(MaxDay + 1)}

Init ==
    /\ now = InstantInInterval
    /\ apiKey \in BOOLEAN
    /\ registry \in Registries
    /\ irradiance = {} /\ weather = {} /\ temperature = {}
    /\ consumption = {} /\ production = {} /\ pearson = {}
    /\ chain = NoChain
    /\ backfill \in {[start |-> sd, state |-> "off", today |-> 0, current |-> 0,
                      invoked |-> << >>] : sd \in StartDates}
    /\ runs = 0
    /\ faults = 0
    /\ lastRun = NoRun
    /\ xs = << >> /\ ys = << >> /\ r = [done |-> FALSE, value |-> None]

\* the wall clock passes on to the next instant
Tick ==
    /\ now + interval_minutes * TickIntervals \in Clock
    /\ now' = now + interval_minutes * TickIntervals
    /\ UNCHANGED <<apiKey, registry, tables, chain, backfill, runs, faults, lastRun, calls>>

\* python -m etl.orchestration [--date D]: main() calls run_etl_chain
CliRun ==
    /\ ChainFree
    /\ runs < MaxRuns
    /\ \E target \in 0..today :
          chain' = StartChain("cli", target)
    /\ runs' = runs + 1
    /\ UNCHANGED <<now, apiKey, registry, tables, backfill, faults, lastRun, calls>>

\* api/main.py lifespan: _run_backfill begins; it parses the start date,
\* reads today's date once and decides whether there is anything to do
BackfillStart ==
    /\ backfill.state = "off"
    /\ ChainFree
    /\ backfill' =
          IF backfill.start = None
            THEN [backfill EXCEPT !.state = "done"]              \* ValueError: logged
          ELSE IF backfill.start[1] > today
            THEN [backfill EXCEPT !.state = "done", !.today = today]
          ELSE [backfill EXCEPT !.state = "running", !.today = today,
                                !.current = backfill.start[1]]
    /\ UNCHANGED <<now, apiKey, registry, tables, chain, runs, faults, lastRun, calls>>

\* a faulty variant: the loop stops before today
BackfillContinues_exclusive(current, last) == current < last
\* the test of the while loop of _run_backfill
BackfillContinues(current, last) == current <= last

\* one turn of the while loop of _run_backfill: the test, the call of
\* _run_etl_chain(current) and the increment that follows its return
BackfillNext ==
    /\ backfill.state = "running"
    /\ ChainFree
    /\ IF BackfillContinues(backfill.current, backfill.today)
         THEN /\ chain' = StartChain("api", backfill.current)
              /\ backfill' = [backfill EXCEPT !.invoked = Append(@, backfill.current),
                                              !.current = @ + 1]
         ELSE /\ backfill' = [backfill EXCEPT !.state = "done"]
              /\ UNCHANGED chain
    /\ UNCHANGED <<now, apiKey, registry, tables, runs, faults, lastRun, calls>>

\* a faulty variant: the scheduler is started without awaiting the backfill
ScheduledJob_beside_backfill ==
    /\ backfill.state \in {"running", "done"}
    /\ ChainFree
    /\ runs < MaxRuns
    /\ chain' = StartChain("api", today)
    /\ runs' = runs + 1
    /\ UNCHANGED <<now, apiKey, registry, tables, backfill, faults, lastRun, calls>>
\* _scheduled_job: the scheduler, started after the backfill has returned,
\* runs the chain for today's date on its single worker
ScheduledJob ==
    /\ backfill.state = "done"
    /\ ChainFree
    /\ runs < MaxRuns
    /\ chain' = StartChain("api", today)
    /\ runs' = runs + 1
    /\ UNCHANGED <<now, apiKey, registry, tables, backfill, faults, lastRun, calls>>

\* `target_date = target_date or date.today()`, the first statement of the
\* run of every stage but the weather stage
OrToday(target_date) == IF target_date = NoDate THEN today ELSE target_date

\* the number of fetches of an outcome function that are not "ok"
BadCount(kind) == Cardinality({q \in DOMAIN kind : kind[q] # "ok"})

RegisteredLocs == {registry[i].loc : i \in DOMAIN registry}

\* the store errors a stage may meet: none, or one at the upsert of a key
Crashes(Keys, none) == IF faults < MaxFaults THEN Keys \cup {none} ELSE {none}

CrashCount(crash, none) == IF crash = none THEN 0 ELSE 1

\* the try block of a source-fetch stage, with the outcomes of its fetches
StageIrradiance ==
    /\ chain.pc = "irradiance"
    /\ \E crash \in Crashes(RegisteredLocs, NULL) :
       \E kind \in Outcomes(RegisteredLocs, {"short", "empty", "error"},
                            MaxFaults - faults - CrashCount(crash, NULL)) :
          LET res == run_irradiance(OrToday(chain.date), kind, crash)
          IN  /\ irradiance' = res.tbl
              /\ lastRun' = res.h
              /\ chain' = [AfterStage("irradiance", res.h)
                             EXCEPT !.faulty = @ \/ BadCount(kind) > 0]
              /\ faults' = faults + BadCount(kind) + CrashCount(crash, NULL)
    /\ UNCHANGED <<now, apiKey, registry, weather, temperature, consumption,
                   production, pearson, backfill, runs, calls>>

StageWeather ==
    /\ chain.pc = "weather"
    /\ \E crash \in Crashes(RegisteredLocs, NULL) :
       \E kind \in Outcomes(WeatherRequests(chain.date), {"empty", "error"},
                            MaxFaults - faults - CrashCount(crash, NULL)) :
          LET res == run_weather(chain.date, kind, crash)
          IN  /\ weather' = res.tbl
              /\ lastRun' = res.h
              /\ chain' = [AfterStage("weather", res.h)
                             EXCEPT !.faulty = @ \/ BadCount(kind) > 0]
              /\ faults' = faults + BadCount(kind) + CrashCount(crash, NULL)
    /\ UNCHANGED <<now, apiKey, registry, irradiance, temperature, consumption,
                   production, pearson, backfill, runs, calls>>

StageTemperature ==
    /\ chain.pc = "temperature"
    /\ \E crash \in Crashes(DOMAIN registry, 0) :
       \E kind \in Outcomes(DOMAIN registry, {"short", "error"},
                            MaxFaults - faults - CrashCount(crash, 0)) :
          LET res == run_temperature(OrToday(chain.date), kind, crash)
          IN  /\ temperature' = res.tbl
              /\ lastRun' = res.h
              /\ chain' = [AfterStage("temperature", res.h)
                             EXCEPT !.faulty = @ \/ BadCount(kind) > 0]
              /\ faults' = faults + BadCount(kind) + CrashCount(crash, 0)
    /\ UNCHANGED <<now, apiKey, registry, irradiance, weather, consumption,
                   production, pearson, backfill, runs, calls>>

\* the try block of a derived stage
StageConsumption ==
    /\ chain.pc = "consumption"
    /\ \E crash \in Crashes(DOMAIN registry, 0) :
          LET res == run_consumption(OrToday(chain.date), crash)
          IN  /\ consumption' = res.tbl
              /\ lastRun' = res.h
              /\ chain' = AfterStage("consumption", res.h)
              /\ faults' = faults + CrashCount(crash, 0)
    /\ UNCHANGED <<now, apiKey, registry, irradiance, weather, temperature,
                   production, pearson, backfill, runs, calls>>

StageProduction ==
    /\ chain.pc = "production"
    /\ \E crash \in Crashes(DOMAIN registry, 0) :
          LET res == run_production(OrToday(chain.date), crash)
          IN  /\ production' = res.tbl
              /\ lastRun' = res.h
              /\ chain' = AfterStage("production", res.h)
              /\ faults' = faults + CrashCount(crash, 0)
    /\ UNCHANGED <<now, apiKey, registry, irradiance, weather, temperature,
                   consumption, pearson, backfill, runs, calls>>

StagePearson ==
    /\ chain.pc = "pearson"
    /\ \E crash \in Crashes(DOMAIN registry, 0) :
          LET res == run_pearson(OrToday(chain.date), crash)
          IN  /\ pearson' = res.tbl
              /\ lastRun' = res.h
              /\ chain' = AfterStage("pearson", res.h)
              /\ faults' = faults + CrashCount(crash, 0)
    /\ UNCHANGED <<now, apiKey, registry, irradiance, weather, temperature,
                   consumption, production, backfill, runs, calls>>

Next ==
    \/ Tick
    \/ CliRun
    \/ BackfillStart
    \/ BackfillNext
    \/ ScheduledJob
    \/ StageIrradiance
    \/ StageWeather
    \/ StageTemperature
    \/ StageConsumption
    \/ StageProduction
    \/ StagePearson

Spec == Init /\ [][Next]_vars

---------------------------------------------------------------------------
(* python -m etl.orchestration without --date *)

\* what a weather run in the first interval of day 0 has stored
StoredEarlier ==
    {[loc |-> loc, ts |-> 0, temperature |-> get_timemachine(loc, 0, "ok").data[1].temp]
        : loc \in RegisteredLocs}

InitDefault ==
    /\ now = InstantInInterval
    /\ apiKey \in BOOLEAN
    /\ registry \in Registries
    /\ weather \in {{}, StoredEarlier}
    /\ irradiance = {} /\ temperature = {}
    /\ consumption = {} /\ production = {} /\ pearson = {}
    /\ chain = NoChain
    /\ backfill \in {[start |-> sd, state |-> "off", today |-> 0, current |-> 0,
                      invoked |-> << >>] : sd \in StartDates}
    /\ runs = 0
    /\ faults = 0
    /\ lastRun = NoRun
    /\ xs = << >> /\ ys = << >> /\ r = [done |-> FALSE, value |-> None]

\* main() with args.date None: target stays None and run_etl_chain(None) is
\* called
CliRunDefault ==
    /\ ChainFree
    /\ runs < MaxRuns
    /\ chain' = StartChain("cli", NoDate)
    /\ runs' = runs + 1
    /\ UNCHANGED <<now, apiKey, registry, tables, backfill, faults, lastRun, calls>>

NextDefault ==
    \/ Tick
    \/ CliRunDefault
    \/ StageIrradiance
    \/ StageWeather
    \/ StageConsumption
    \/ StageProduction
    \/ StagePearson

SpecDefault == InitDefault /\ [][NextDefault]_vars

---------------------------------------------------------------------------
(* _pearson called directly on lists of paired samples *)

\* sample values: small ones, and ones whose squares need more significant
\* bits than a float has
Samples == {0, 1, 38, 40}

\* the lists of at most n pairs of samples
RECURSIVE PairLists(_)
PairLists(n) ==
    IF n = 0 THEN {<< >>}
    ELSE LET shorter == PairLists(n - 1)
         IN  shorter \cup {Append(ps, <<x, y>>) :
                             ps \in {q \in shorter : Len(q) = n - 1},
                             x \in Samples, y \in Samples}

InitPearson ==
    /\ now = InstantInInterval
    /\ apiKey = TRUE
    /\ registry = << >>
    /\ irradiance = {} /\ weather = {} /\ temperature = {}
    /\ consumption = {} /\ production = {} /\ pearson = {}
    /\ chain = NoChain
    /\ backfill = [start |-> None, state |-> "off", today |-> 0, current |-> 0,
                   invoked |-> << >>]
    /\ runs = 0
    /\ faults = 0
    /\ lastRun = NoRun
    /\ \E ps \in PairLists(MaxLen) : xs = Firsts(ps) /\ ys = Seconds(ps)
    /\ r = [done |-> FALSE, value |-> None]

\* the call _pearson(xs, ys) returns
CallPearson ==
    /\ ~r.done
    /\ r' = [done |-> TRUE, value |-> _pearson(xs, ys)]
    /\ UNCHANGED <<now, apiKey, registry, tables, chain, backfill, runs, faults,
                   lastRun, xs, ys>>

NextPearson == CallPearson

SpecPearson == InitPearson /\ [][NextPearson]_vars

---------------------------------------------------------------------------
(* Properties *)

IsPrefix(p, q) == Len(p) <= Len(q) /\ \A i \in DOMAIN p : p[i] = q[i]

Last(q) == q[Len(q)]

(* C1: if a stage of a chain run raises, the chain has ended there: the    *)
(* stage that raised is the last stage the run started, and no stage is    *)
(* left to run.                                                            *)
TH_C1 ==
    chain.failed # NULL =>
        /\ chain.pc = "done"
        /\ chain.started # << >>
        /\ Last(chain.started) = chain.failed

\* the irradiance stage of a command-line chain has raised
WIT_C1 ==
    /\ chain.kind = "cli"
    /\ chain.failed = "irradiance"
    /\ lastRun.stage = "irradiance" /\ lastRun.raised
    /\ chain.started = <<"irradiance">>

(* C2: the stages of a chain run start in the order of its orchestrator,   *)
(* irradiance, weather, consumption, production, correlation from the      *)
(* command line and temperature, irradiance, consumption, production,      *)
(* correlation in the API process; each at most once, and the stage to run *)
(* next is the one after those started, none of which has raised.          *)
TH_C2 ==
    LET cli == <<"irradiance", "weather", "consumption", "production", "pearson">>
        api == <<"temperature", "irradiance", "consumption", "production", "pearson">>
        order == IF chain.kind = "cli" THEN cli ELSE api
    IN  chain.kind # "none" =>
          /\ IsPrefix(chain.started, order)
          /\ chain.pc # "done" =>
                /\ chain.failed = NULL
                /\ Len(chain.started) < Len(order)
                /\ chain.pc = order[Len(chain.started) + 1]
          /\ (chain.pc = "done" /\ chain.failed = NULL) => chain.started = order

\* a chain of the API process has run all its stages
WIT_C2 ==
    /\ chain.kind = "api"
    /\ chain.pc = "done"
    /\ chain.failed = NULL
    /\ Len(chain.started) = 5

(* C2 as stated: in every chain run the stages start in the order          *)
(* irradiance, weather, consumption, production, correlation.              *)
CE_C2 ==
    chain.kind # "none" =>
        IsPrefix(chain.started,
                 <<"irradiance", "weather", "consumption", "production", "pearson">>)

(* C3: a backfill with a valid start date not after today calls the chain  *)
(* once for each day from the start date to today, in ascending order:    *)
(* every turn of its loop, whatever the chain before it did, starts the    *)
(* chain of the next day, or ends the backfill when that day is after      *)
(* today.                                                                  *)
C3Inv ==
    (backfill.state \in {"running", "done"} /\ backfill.start # None
       /\ backfill.start[1] <= backfill.today) =>
        LET first == backfill.start[1]
            days  == backfill.today - first + 1
        IN  /\ Len(backfill.invoked) <= days
            /\ backfill.invoked = [i \in 1..Len(backfill.invoked) |-> first + i - 1]
            /\ backfill.current = first + Len(backfill.invoked)
            /\ backfill.state = "done" => Len(backfill.invoked) = days

C3Turn ==
    (backfill.state = "running" /\ backfill' # backfill) =>
        \/ /\ backfill.current <= backfill.today
           /\ backfill'.state = "running"
           /\ backfill'.invoked = Append(backfill.invoked, backfill.current)
           /\ chain'.kind = "api" /\ chain'.date = backfill.current
           /\ chain'.started = << >> /\ chain'.pc = "temperature"
        \/ /\ backfill.current > backfill.today
           /\ backfill'.state = "done"
           /\ backfill'.invoked = backfill.invoked
           /\ chain' = chain

TH_C3 == []C3Inv /\ [][C3Turn]_vars

\* a backfill over two days has returned although every chain failed
WIT_C3 ==
    /\ ~apiKey
    /\ registry # << >>
    /\ backfill.state = "done"
    /\ backfill.invoked = <<0, 1>>
    /\ chain.kind = "api" /\ chain.failed = "temperature" /\ chain.date = 1

\* the customers of the registry, and the slots of a day
CustomerIds == {registry[i].customer_id : i \in DOMAIN registry}
LocOf(id) == registry[CHOOSE i \in DOMAIN registry : registry[i].customer_id = id].loc
Slots(day) == {date_to_datetime(day) + interval_minutes * k : k \in 0..(intervals_per_day - 1)}

\* the stage run of lastRun is the last stage the current chain run started
LastOfChain ==
    /\ chain.started # << >>
    /\ Last(chain.started) = lastRun.stage
    /\ chain.date = lastRun.date

HasSourceData(day) ==
    {c \in CustomerIds :
        \/ \E x \in irradiance : /\ x.loc = LocOf(c)
                                 /\ fetch_start(day) <= x.ts /\ x.ts <= fetch_end(day)
        \/ \E x \in weather : /\ x.loc = LocOf(c)
                              /\ fetch_start(day) <= x.ts /\ x.ts <= fetch_end(day)}

(* C6: after the correlation stage has returned for a date, every customer *)
(* for whose location the store holds a row of irradiance or of weather    *)
(* between the start of the day before and the end of the date has exactly *)
(* one correlation row for each slot of the date, written by this run; a   *)
(* customer without any such row is skipped and gets no row.               *)
TH_C6 ==
    (lastRun.stage = "pearson" /\ ~lastRun.raised) =>
        LET D == lastRun.date
        IN  /\ lastRun.gaps = CustomerIds \ HasSourceData(D)
            /\ \A c \in HasSourceData(D) : \A ts \in Slots(D) :
                  /\ Cardinality({x \in pearson : x.customer_id = c /\ x.ts = ts}) = 1
                  /\ Cardinality({x \in lastRun.wrote :
                                     x.customer_id = c /\ x.ts = ts}) = 1
            /\ \A x \in lastRun.wrote :
                  x.customer_id \in HasSourceData(D) /\ x.ts \in Slots(D)
            /\ lastRun.wrote \subseteq pearson

\* the correlation stage has returned, having written one customer and
\* skipped another
WIT_C6 ==
    /\ lastRun.stage = "pearson" /\ ~lastRun.raised
    /\ lastRun.gaps # {}
    /\ lastRun.wrote # {}

(* C6 as stated: after the correlation stage has returned for a date,      *)
(* every customer has exactly one correlation row for each slot of it.     *)
CE_C6 ==
    (lastRun.stage = "pearson" /\ ~lastRun.raised) =>
        \A c \in CustomerIds : \A ts \in Slots(lastRun.date) :
            Cardinality({x \in pearson : x.customer_id = c /\ x.ts = ts}) = 1

IsConstant(q) == \A i, j \in DOMAIN q : q[i] = q[j]

(* C7 as stated: _pearson returns null exactly when fewer than two pairs   *)
(* are given or one of the two lists is constant.                          *)
CE_C7 ==
    r.done => ((r.value = None) <=> (Len(xs) < 2 \/ IsConstant(xs) \/ IsConstant(ys)))

\* the timestamps of the trailing window that ends at ts, in ascending order
TrailingWindow(ts) ==
    [k \in 1..intervals_per_day |-> ts - DayMinutes + interval_minutes * k]

\* the samples of two series of rows (A and B are the rows of the customer):
\* one pair for every timestamp of the window that has a row in both
PairsByTimestamp(ts, A, valueA, B, valueB) ==
    LET Both(t) == /\ \E x \in A : x.ts = t
                   /\ \E y \in B : y.ts = t
        kept == SelectSeq(TrailingWindow(ts), Both)
    IN  [k \in DOMAIN kept |->
            <<(CHOOSE x \in A : x.ts = kept[k])[valueA],
              (CHOOSE y \in B : y.ts = kept[k])[valueB]>>]

(* C8: the samples the correlation stage uses for an output timestamp ts   *)
(* are, for each variable pair, exactly the pairs (x[t], y[t]) of the      *)
(* timestamps t of the trailing window ts - 23:45 .. ts that have a row in *)
(* both series, in ascending order of t.                                   *)
TH_C8 ==
    lastRun.stage = "pearson" =>
        \A sm \in lastRun.pairs :
            LET AtLoc(tbl) == {x \in tbl : x.loc = LocOf(sm.customer_id)}
                OfCust(tbl) == {x \in tbl : x.customer_id = sm.customer_id}
            IN  /\ sm.irr_prod = PairsByTimestamp(sm.ts, AtLoc(irradiance), IrrValue,
                                                  OfCust(production), PowerValue)
                /\ sm.temp_cons = PairsByTimestamp(sm.ts, AtLoc(weather), TempValue,
                                                   OfCust(consumption), PowerValue)

\* a window with two samples or more, and with a timestamp that has a row of
\* irradiance and no row of production
WIT_C8 ==
    /\ lastRun.stage = "pearson"
    /\ \E sm \in lastRun.pairs :
          /\ Len(sm.irr_prod) >= 2
          /\ \E k \in DOMAIN TrailingWindow(sm.ts) :
                /\ \E x \in irradiance : /\ x.loc = LocOf(sm.customer_id)
                                         /\ x.ts = TrailingWindow(sm.ts)[k]
                /\ ~\E y \in production : /\ y.customer_id = sm.customer_id
                                          /\ y.ts = TrailingWindow(sm.ts)[k]

(* C9: every timestamp of the trailing window of every output slot of the  *)
(* target date D lies in the interval the correlation stage fetches, which *)
(* is [D-1 00:00, D 23:45].                                                *)
TH_C9 ==
    lastRun.stage = "pearson" =>
        LET D   == lastRun.date
            out == output_timestamps(D)
        IN  /\ fetch_start(D) = (D - 1) * DayMinutes
            /\ fetch_end(D) = (D + 1) * DayMinutes - interval_minutes
            /\ {out[k] : k \in DOMAIN out} = Slots(D)
            /\ \A k \in DOMAIN out : \A j \in DOMAIN window_ts(out[k]) :
                  /\ fetch_start(D) <= window_ts(out[k])[j]
                  /\ window_ts(out[k])[j] <= fetch_end(D)

\* the correlation stage has used a sample of the day before the target date
\* for the first slot of the date
WIT_C9 ==
    /\ lastRun.stage = "pearson"
    /\ \E sm \in lastRun.pairs :
          /\ sm.ts = date_to_datetime(lastRun.date)
          /\ Len(sm.irr_prod) >= 2

\* every fetch succeeds
AllOk(Requests) == [q \in Requests |-> "ok"]

\* the last chain run has returned after all its stages, every one of its
\* fetches having returned the full data
CleanChainDone ==
    /\ chain.kind # "none"
    /\ chain.pc = "done"
    /\ chain.failed = NULL
    /\ ~chain.faulty

\* the table a stage of the last chain run would leave if it ran again now
\* for the same date, every fetch succeeding
RerunLeaves(stage) ==
    LET D == chain.date
    IN  CASE stage = "irradiance" ->
               run_irradiance(D, AllOk(RegisteredLocs), NULL).tbl = irradiance
          [] stage = "weather" ->
               run_weather(D, AllOk(WeatherRequests(D)), NULL).tbl = weather
          [] stage = "consumption" -> run_consumption(D, 0).tbl = consumption
          [] stage = "production"  -> run_production(D, 0).tbl = production
          [] stage = "pearson"     -> run_pearson(D, 0).tbl = pearson

OfDay(tbl, D) == {x \in tbl : x.ts \in Slots(D)}

\* the rows of the date in the table of a stage are those the stage computes
\* on an empty table
AsFromScratch(stage) ==
    LET D == chain.date
        cutoff == IF D = today THEN Some(_current_interval_cutoff) ELSE None
    IN  CASE stage = "irradiance" ->
               OfDay(irradiance, D)
                 = OfDay(irradiance_loop(D, cutoff, AllOk(RegisteredLocs), NULL, 1,
                                         {}, {}, NoRun).tbl, D)
          [] stage = "weather" ->
               OfDay(weather, D)
                 = OfDay(weather_loop(D, AllOk(WeatherRequests(D)), NULL,
                                      UniqueLocations(1, << >>), 1, {}, NoRun).tbl, D)
          [] stage = "consumption" ->
               OfDay(consumption, D) = OfDay(consumption_loop(D, 0, 1, {}, NoRun).tbl, D)
          [] stage = "production" ->
               OfDay(production, D) = OfDay(production_loop(D, 0, 1, {}, NoRun).tbl, D)
          [] stage = "pearson" ->
               OfDay(pearson, D) = OfDay(pearson_loop(D, 0, 1, {}, NoRun).tbl, D)

UniqueLocKeys(tbl) == \A x, y \in tbl : (x.loc = y.loc /\ x.ts = y.ts) => x = y
UniqueCustKeys(tbl) ==
    \A x, y \in tbl : (x.customer_id = y.customer_id /\ x.ts = y.ts) => x = y

\* the tables whose bulk upsert is part of api/db/client.py
UniqueKeys ==
    /\ UniqueLocKeys(irradiance) /\ UniqueLocKeys(weather)
    /\ UniqueCustKeys(consumption) /\ UniqueCustKeys(production)
    /\ UniqueCustKeys(pearson)

\* the stages of the last chain run that write through api/db/client.py
\* (the store has no temperature table)
StoredStages ==
    {chain.started[k] : k \in DOMAIN chain.started} \ {"temperature"}

\* the date of the last chain run was over when the run began, or the clock
\* has not moved since
ClockSettled == chain.date < DateOf(chain.at) \/ now = chain.at

(* C10: no key of a table of the store ever holds more than one row; and   *)
(* once a chain run for a date that was already over when it began (or     *)
(* with the clock not having moved since it began) has returned after all  *)
(* its stages, every fetch having returned the full data, running any of   *)
(* its stages again for that date                                          *)
(* leaves the store as it is, and the rows of the date in every table the  *)
(* chain writes are those the stage computes on an empty table, whatever   *)
(* an earlier run for the date had left there.                             *)
TH_C10 ==
    /\ UniqueKeys
    /\ (CleanChainDone /\ ClockSettled) =>
          \A stage \in StoredStages : RerunLeaves(stage) /\ AsFromScratch(stage)

\* a clean run for a date has returned after an earlier run for the same
\* date had failed part-way, and it has written rows
WIT_C10 ==
    /\ CleanChainDone /\ ClockSettled
    /\ faults > 0
    /\ Len(backfill.invoked) = 1 /\ backfill.invoked[1] = chain.date
    /\ runs = 1 /\ chain.kind = "cli"
    /\ OfDay(production, chain.date) # {}
    /\ OfDay(pearson, chain.date) # {}

(* C10 as stated: after a chain run for a date has returned after all its  *)
(* stages, running its stages again for that date leaves the store as it   *)
(* is.                                                                     *)
CE_C10 ==
    CleanChainDone => \A stage \in StoredStages : RerunLeaves(stage)

---------------------------------------------------------------------------
(* Independence of the dates *)

\* the rows of a table that belong to day D or to the day before it
OfTwoDays(tbl, D) == {x \in tbl : x.ts \in Slots(D - 1) \cup Slots(D)}

\* the timestamps of a set of rows
TimesOf(rows) == {x.ts : x \in rows}

\* the correlation rows of day D as computed from the tables I (irradiance),
\* W (weather), C (consumption) and P (production) and nothing else
PearsonFrom(I, W, C, P, D) ==
    LET InFetch(x) == fetch_start(D) <= x.ts /\ x.ts <= fetch_end(D)
        AtLoc(tbl, c) == {x \in tbl : x.loc = LocOf(c) /\ InFetch(x)}
        OfCust(tbl, c) == {x \in tbl : x.customer_id = c /\ InFetch(x)}
        known == {c \in CustomerIds : AtLoc(I, c) # {} \/ AtLoc(W, c) # {}}
    IN  {output_row([customer_id |-> c, ts |-> ts,
                     irr_prod  |-> PairsByTimestamp(ts, AtLoc(I, c), IrrValue,
                                                    OfCust(P, c), PowerValue),
                     temp_cons |-> PairsByTimestamp(ts, AtLoc(W, c), TempValue,
                                                    OfCust(C, c), PowerValue)])
           : c \in known, ts \in Slots(D)}

(* C11: what a stage run for date D reads and writes.  The source-fetch    *)
(* stages read nothing from the store; the consumption and production      *)
(* stages read rows of D only; every stage writes rows of D only, except   *)
(* that the weather stage also writes the row of 00:00 of D + 1; and the   *)
(* correlation stage reads rows of D - 1 and D, the rows it writes being   *)
(* those computed from the rows stored for D - 1 and D and nothing else.   *)
TH_C11 ==
    LET D == lastRun.date
    IN  /\ lastRun.stage \in {"irradiance", "weather", "temperature"} =>
              lastRun.read = {}
        /\ lastRun.stage \in {"consumption", "production"} =>
              lastRun.read \subseteq Slots(D)
        /\ lastRun.stage = "pearson" =>
              lastRun.read \subseteq Slots(D - 1) \cup Slots(D)
        /\ lastRun.stage \in {"irradiance", "temperature", "consumption",
                              "production", "pearson"} =>
              TimesOf(lastRun.wrote) \subseteq Slots(D)
        /\ lastRun.stage = "weather" =>
              TimesOf(lastRun.wrote) \subseteq Slots(D) \cup {date_to_datetime(D + 1)}
        /\ (lastRun.stage = "pearson" /\ ~lastRun.raised) =>
              lastRun.wrote = PearsonFrom(OfTwoDays(irradiance, D), OfTwoDays(weather, D),
                                          OfTwoDays(consumption, D),
                                          OfTwoDays(production, D), D)

\* the correlation stage has returned for a date after reading rows of the
\* day before, and the rows it wrote are not those the rows of the date alone
\* give
WIT_C11 ==
    /\ lastRun.stage = "pearson" /\ ~lastRun.raised
    /\ lastRun.read \cap Slots(lastRun.date - 1) # {}
    /\ lastRun.wrote # PearsonFrom(OfDay(irradiance, lastRun.date),
                                   OfDay(weather, lastRun.date),
                                   OfDay(consumption, lastRun.date),
                                   OfDay(production, lastRun.date), lastRun.date)

(* C11 as stated: the rows the correlation stage persists for date D are  *)
(* those the rows of D alone give, whatever the store holds for the other  *)
(* dates.                                                                  *)
CE_C11 ==
    LET D == lastRun.date
    IN  (lastRun.stage = "pearson" /\ ~lastRun.raised) =>
            lastRun.wrote = PearsonFrom(OfDay(irradiance, D), OfDay(weather, D),
                                        OfDay(consumption, D), OfDay(production, D), D)

---------------------------------------------------------------------------
(* The grid of the persisted series *)

\* the timestamps of day D at which a table holds a row of a location / of a
\* customer
LocTimes(tbl, loc, D) == {x.ts : x \in {y \in tbl : y.loc = loc /\ y.ts \in Slots(D)}}
CustTimes(tbl, c, D) ==
    {x.ts : x \in {y \in tbl : y.customer_id = c /\ y.ts \in Slots(D)}}

\* every row of the store lies on the 15-minute grid
OnGrid ==
    \A t \in TimesOf(irradiance) \cup TimesOf(weather) \cup TimesOf(temperature)
             \cup TimesOf(consumption) \cup TimesOf(production) :
        t % interval_minutes = 0

---------------------------------------------------------------------------
(* One call of the external source per location *)

\* no two calls of a run ask the source for the same location and the same
\* day or hour
AtMostOnce(cs) == \A j, k \in DOMAIN cs : cs[j] = cs[k] => j = k

FetchStages == {"irradiance", "weather", "temperature"}

(* C13: within one run of a source-fetch stage the external source is      *)
(* called at most once for each location and requested day or hour,        *)
(* however many customers share the location.                              *)
CE_C13 == lastRun.stage \in FetchStages => AtMostOnce(lastRun.calls)

---------------------------------------------------------------------------
(* One date for all the stages of a chain run *)

\* the target dates of the stages of the current chain run that have one
DatesOfChain == {chain.dates[k] : k \in DOMAIN chain.dates} \ {NoDate}

\* the rows the weather stage of the current chain run wrote lie in day d,
\* the row of 00:00 of the next day left aside
WeatherOfChainIn(d) ==
    (lastRun.stage = "weather" /\ LastOfChain) =>
        TimesOf(lastRun.wrote) \subseteq Slots(d) \cup {date_to_datetime(d + 1)}

(* C14: all the stages of one chain invocation process one and the same    *)
(* calendar date, also when the chain is started without a date and the    *)
(* clock advances, possibly past midnight, while the chain is running.     *)
CE_C14 ==
    chain.kind = "cli" =>
        /\ Cardinality(DatesOfChain) <= 1
        /\ \A d \in DatesOfChain : WeatherOfChainIn(d)

---------------------------------------------------------------------------
(* lib/series_util.py *)

(* Numbers are exact fractions n/d in lowest terms with d > 0: the         *)
(* rounding of binary floating point is left out.  Objects live in a heap, *)
(* a sequence of cells addressed by their index: a list cell holds its     *)
(* items (optional numbers in a list of numbers, references in a list of   *)
(* points), a point cell its timestamp and its optional value.             *)

RECURSIVE GCD(_, _)
GCD(a, b) == IF b = 0 THEN a ELSE GCD(b, a % b)

Frac(n, d) ==
    LET g == GCD(Abs(n), d)
    IN  [n |-> n \div g, d |-> d \div g]

FAdd(a, b) == Frac(a.n * b.d + b.n * a.d, a.d * b.d)
FSub(a, b) == Frac(a.n * b.d - b.n * a.d, a.d * b.d)
FMulInt(a, k) == Frac(a.n * k, a.d)
FDivInt(a, k) == Frac(a.n, a.d * k)

FloatList(items) == [kind |-> "floats", items |-> items, timestamp |-> 0, value |-> None]
PointList(items) == [kind |-> "points", items |-> items, timestamp |-> 0, value |-> None]
TimeSeriesPoint(timestamp, value) ==
    [kind |-> "point", items |-> << >>, timestamp |-> timestamp, value |-> value]

\* a faulty variant: the gap is divided into `steps` parts
interpolate_steps_by_steps(left, right, steps) ==
    IF left = None \/ right = None
      THEN [k \in 1..steps |-> IF left # None THEN left ELSE right]
      ELSE LET step_size == FDivInt(FSub(right[1], left[1]), steps)
           IN  [k \in 1..steps |-> Some(FAdd(left[1], FMulInt(step_size, k)))]
\* a faulty variant: a gap without both anchors stays missing
interpolate_steps_anchored(left, right, steps) ==
    IF left = None \/ right = None
      THEN [k \in 1..steps |-> None]
      ELSE LET step_size == FDivInt(FSub(right[1], left[1]), steps + 1)
           IN  [k \in 1..steps |-> Some(FAdd(left[1], FMulInt(step_size, k)))]
\* interpolate_steps(left, right, steps)
interpolate_steps(left, right, steps) ==
    IF left = None \/ right = None
      THEN [k \in 1..steps |-> IF left # None THEN left ELSE right]
      ELSE LET step_size == FDivInt(FSub(right[1], left[1]), steps + 1)
           IN  [k \in 1..steps |-> Some(FAdd(left[1], FMulInt(step_size, k)))]

\* the while loop of interpolate from (1-based) position i on
RECURSIVE interpolate_loop(_, _)
interpolate_loop(points_copy, i) ==
    IF i > Len(points_copy) THEN points_copy
    ELSE IF points_copy[i] # None THEN interpolate_loop(points_copy, i + 1)
    ELSE
      LET known == {k \in (i + 1)..Len(points_copy) : points_copy[k] # None}
          j     == IF known = {} THEN Len(points_copy) + 1
                   ELSE CHOOSE k \in known : \A m \in known : k <= m
          left  == IF i > 1 THEN points_copy[i - 1] ELSE None
          right == IF j <= Len(points_copy) THEN points_copy[j] ELSE None
          steps == j - i
          interpolated_values == interpolate_steps(left, right, steps)
      IN  interpolate_loop([k \in DOMAIN points_copy |->
                               IF i <= k /\ k < j THEN interpolated_values[k - i + 1]
                               ELSE points_copy[k]], j)

\* what a call leaves: the heap and the reference it returns
Returned(heap, ref) == [heap |-> heap, ref |-> ref]

\* interpolate(points): a new empty list for an empty one, else the loop on
\* points.copy()
interpolate(heap, points) ==
    IF heap[points].items = << >>
      THEN Returned(Append(heap, FloatList(<< >>)), Len(heap) + 1)
      ELSE Returned(Append(heap, FloatList(interpolate_loop(heap[points].items, 1))),
                    Len(heap) + 1)

\* a faulty variant: copy.copy, a new list of the same point objects
deepcopy_shallow(heap, points) ==
    Returned(Append(heap, PointList(heap[points].items)), Len(heap) + 1)
\* copy.deepcopy of a list of points: a copy of every point object, then the
\* list of the copies
deepcopy(heap, points) ==
    LET items  == heap[points].items
        firsts == {k \in DOMAIN items : \A m \in 1..(k - 1) : items[m] # items[k]}
        \* the copy of the object at position k: one per distinct object
        CopyOf(k) == Len(heap)
                       + Cardinality({m \in firsts : m <= (CHOOSE f \in firsts :
                                                             items[f] = items[k])})
        n      == Cardinality(firsts)
        Nth(c) == CHOOSE k \in firsts : CopyOf(k) = Len(heap) + c
        copies == [c \in 1..n |-> heap[items[Nth(c)]]]
    IN  Returned((heap \o copies) \o <<PointList([k \in DOMAIN items |-> CopyOf(k)])>>,
                 Len(heap) + n + 1)

\* `for p, value in zip(points_copy, interpolated_values): setter(p, value)`
RECURSIVE set_values(_, _, _, _)
set_values(heap, items, values, k) ==
    IF k > Len(items) \/ k > Len(values) THEN heap
    ELSE set_values([heap EXCEPT ![items[k]].value = values[k]], items, values, k + 1)

\* interpolate_any(points, getter, setter) with the getter and the setter of
\* interpolate_time_series: the field `value`
interpolate_any(heap, points) ==
    LET copied      == deepcopy(heap, points)
        points_copy == copied.ref
        items       == copied.heap[points_copy].items
        raw_points  == [k \in DOMAIN items |-> copied.heap[items[k]].value]
        with_raw    == Append(copied.heap, FloatList(raw_points))
        interpolated == interpolate(with_raw, Len(with_raw))
        interpolated_values == interpolated.heap[interpolated.ref].items
    IN  Returned(set_values(interpolated.heap, items, interpolated_values, 1),
                 points_copy)

interpolate_time_series(heap, points) == interpolate_any(heap, points)

\* the longest list passed to interpolate, the longest list of points passed
\* to interpolate_time_series, and the values known in them
MaxPoints == 6
MaxSeries == 4
KnownValues == {0, 1, 4}

OptionalValues == {None} \cup {Some(Frac(v, 1)) : v \in KnownValues}

RECURSIVE ListsUpTo(_, _)
ListsUpTo(S, n) ==
    IF n = 0 THEN {<< >>}
    ELSE LET shorter == ListsUpTo(S, n - 1)
         IN  shorter \cup {Append(q, x) : q \in {p \in shorter : Len(p) = n - 1}, x \in S}

\* the heap at the call: one list of numbers, or the points of a series on
\* the 15-minute grid followed by the list of them, each point once or the
\* last point in the list twice
HeapOfFloats(values) == <<FloatList(values)>>
HeapOfSeries(values, twice) ==
    [k \in DOMAIN values |-> TimeSeriesPoint(interval_minutes * (k - 1), values[k])]
      \o <<PointList(IF twice /\ values # << >>
                       THEN Append([k \in DOMAIN values |-> k], Len(values))
                       ELSE [k \in DOMAIN values |-> k])>>

\* xs is the heap as it was at the call, ys the heap, and the argument of
\* the call is the last cell of xs
Argument == Len(xs)

InitSeries ==
    /\ now = InstantInInterval
    /\ apiKey = TRUE
    /\ registry = << >>
    /\ irradiance = {} /\ weather = {} /\ temperature = {}
    /\ consumption = {} /\ production = {} /\ pearson = {}
    /\ chain = NoChain
    /\ backfill = [start |-> None, state |-> "off", today |-> 0, current |-> 0,
                   invoked |-> << >>]
    /\ runs = 0
    /\ faults = 0
    /\ lastRun = NoRun
    /\ \/ \E values \in ListsUpTo(OptionalValues, MaxPoints) :
             xs = HeapOfFloats(values)
       \/ \E values \in ListsUpTo(OptionalValues, MaxSeries), twice \in BOOLEAN :
             xs = HeapOfSeries(values, twice)
    /\ ys = xs
    /\ r = [done |-> FALSE, value |-> None]

CallInterpolate ==
    /\ ~r.done
    /\ xs[Argument].kind = "floats"
    /\ LET res == interpolate(ys, Argument)
       IN  /\ ys' = res.heap
           /\ r' = [done |-> TRUE, value |-> Some(res.ref)]
    /\ UNCHANGED <<now, apiKey, registry, tables, chain, backfill, runs, faults,
                   lastRun, xs>>

CallInterpolateTimeSeries ==
    /\ ~r.done
    /\ xs[Argument].kind = "points"
    /\ LET res == interpolate_time_series(ys, Argument)
       IN  /\ ys' = res.heap
           /\ r' = [done |-> TRUE, value |-> Some(res.ref)]
    /\ UNCHANGED <<now, apiKey, registry, tables, chain, backfill, runs, faults,
                   lastRun, xs>>

NextSeries ==
    \/ CallInterpolate
    \/ CallInterpolateTimeSeries

SpecSeries == InitSeries /\ [][NextSeries]_vars

---------------------------------------------------------------------------
(* Interpolation *)

\* the list given to interpolate and the list it returned
GivenList == xs[Argument].items
ReturnedList == ys[r.value[1]].items

InterpolateReturned == r.done /\ xs[Argument].kind = "floats"

\* the known positions of a list before and after position k
KnownBefore(points, k) == {m \in 1..(k - 1) : points[m] # None}
KnownAfter(points, k) == {m \in (k + 1)..Len(points) : points[m] # None}
Greatest(S) == CHOOSE m \in S : \A u \in S : u <= m
Least(S) == CHOOSE m \in S : \A u \in S : m <= u

\* left + i * (right - left) / (steps + 1)
Linear(left, right, i, steps) ==
    FAdd(left, FDivInt(FMulInt(FSub(right, left), i), steps + 1))

(* C15: interpolate returns a list of the length of its input in which     *)
(* every known value is unchanged at its position, position i of an        *)
(* interior gap of `steps` missing values between known left and right     *)
(* holds left + i*(right-left)/(steps+1), every position of a leading gap  *)
(* holds the first known value and every position of a trailing gap the    *)
(* last known value.                                                       *)
TH_C15 ==
    InterpolateReturned =>
        /\ Len(ReturnedList) = Len(GivenList)
        /\ \A k \in DOMAIN GivenList :
              LET before == KnownBefore(GivenList, k)
                  after  == KnownAfter(GivenList, k)
              IN  /\ GivenList[k] # None => ReturnedList[k] = GivenList[k]
                  /\ (GivenList[k] = None /\ before # {} /\ after # {}) =>
                        ReturnedList[k] =
                            Some(Linear(GivenList[Greatest(before)][1],
                                        GivenList[Least(after)][1],
                                        k - Greatest(before),
                                        Least(after) - Greatest(before) - 1))
                  /\ (GivenList[k] = None /\ before = {} /\ after # {}) =>
                        ReturnedList[k] = GivenList[Least(after)]
                  /\ (GivenList[k] = None /\ before # {} /\ after = {}) =>
                        ReturnedList[k] = GivenList[Greatest(before)]

\* interpolate has returned for a list with a leading gap, an interior gap
\* of two whose values are not whole numbers, and a trailing gap
WIT_C15 ==
    /\ InterpolateReturned
    /\ GivenList = <<None, Some(Frac(0, 1)), None, None, Some(Frac(4, 1)), None>>
    /\ ReturnedList[3] = Some(Frac(4, 3))
    /\ ReturnedList[1] = Some(Frac(0, 1))
    /\ ReturnedList[6] = Some(Frac(4, 1))


AllMissing(points) == \A k \in DOMAIN points : points[k] = None

(* C16: the list interpolate returns contains a missing value only when    *)
(* every value of its input is missing, and then it is all missing and of  *)
(* the same length; when the input has a known value, no value of the      *)
(* output is missing.                                                      *)
TH_C16 ==
    InterpolateReturned =>
        /\ AllMissing(GivenList) =>
              AllMissing(ReturnedList) /\ Len(ReturnedList) = Len(GivenList)
        /\ ~AllMissing(GivenList) => \A k \in DOMAIN ReturnedList : ReturnedList[k] # None

\* interpolate has returned for a list with one known value between missing
\* ones, and for no position of the output is the value missing
WIT_C16 ==
    /\ InterpolateReturned
    /\ Len(GivenList) = MaxPoints
    /\ Cardinality({k \in DOMAIN GivenList : GivenList[k] # None}) = 1
    /\ GivenList[1] = None /\ GivenList[Len(GivenList)] = None
    /\ \A k \in DOMAIN ReturnedList : ReturnedList[k] # None


\* the list of points interpolate_time_series returned
SeriesReturned == r.done /\ xs[Argument].kind = "points"

(* C17: interpolation does not change its input: after interpolate or      *)
(* interpolate_time_series has returned, the list it was given and every   *)
(* point object in it are as they were at the call; what is returned is a  *)
(* new list, and from interpolate_time_series a list of new point objects, *)
(* as many as in the input, each with the timestamp of the input's point   *)
(* at the same position.                                                   *)
TH_C17 ==
    r.done =>
        /\ \A ref \in DOMAIN xs : ys[ref] = xs[ref]
        /\ r.value[1] \notin DOMAIN xs
        /\ Len(ReturnedList) = Len(GivenList)
        /\ SeriesReturned =>
              \A k \in DOMAIN GivenList :
                  /\ ReturnedList[k] \notin DOMAIN xs
                  /\ ys[ReturnedList[k]].kind = "point"
                  /\ ys[ReturnedList[k]].timestamp = xs[GivenList[k]].timestamp
                  /\ xs[GivenList[k]].value # None =>
                        ys[ReturnedList[k]].value = xs[GivenList[k]].value

\* interpolate_time_series has returned for a series with a gap, and the
\* point returned for the gap has a value where the input's point has none
WIT_C17 ==
    /\ SeriesReturned
    /\ Len(GivenList) = 3
    /\ xs[GivenList[2]].value = None
    /\ ys[GivenList[2]].value = None
    /\ ys[ReturnedList[2]].value = Some(Frac(5, 2))

---------------------------------------------------------------------------
(* lib/predictable_jitter.py *)

(* A jitter range is counted in thousandths and a result in units of       *)
(* 10^-5, so that every product and every rounding below is exact.         *)

\* the keys the function is called with below
JitterKeys == {0, 1, 24, 33, 42, 62, 206, 230}

\* int(sha256(str(input).encode()).hexdigest(), 16) % (100 * 2 + 1) - 100 for
\* the floats 0.0, 1.0, 24.0, 33.0, 42.0, 62.0, 206.0 and 230.0
normalized_jitter(input) ==
    CASE input = 0   -> -62
      [] input = 1   -> 10
      [] input = 24  -> 100
      [] input = 33  -> 0
      [] input = 42  -> -50
      [] input = 62  -> 90
      [] input = 206 -> -90
      [] input = 230 -> -100

RECURSIVE Pow10(_)
Pow10(k) == IF k = 0 THEN 1 ELSE 10 * Pow10(k - 1)

\* round(x, ndigits) of x units of 10^-5: the nearest multiple of
\* 10^-ndigits, a tie to the even one
round(x, ndigits) ==
    LET q   == Pow10(5 - ndigits)
        lo  == x \div q
        rem == x % q
    IN  IF 2 * rem < q THEN lo * q
        ELSE IF 2 * rem > q THEN (lo + 1) * q
        ELSE IF lo % 2 = 0 THEN lo * q ELSE (lo + 1) * q

\* predictable_jitter(input, jitter_range, round_to):
\* round(normalized_jitter * jitter_range / 100, round_to)
predictable_jitter(input, jitter_range, round_to) ==
    round(normalized_jitter(input) * jitter_range, round_to)

\* the ranges (0, 0.006, 0.6, 1, 6 and 10) and the precisions of the calls
JitterRanges == {0, 6, 600, 1000, 6000, 10000}
RoundTo == {-1, 0, 2}

\* xs holds the arguments of the call: input, jitter_range, round_to
InitJitter ==
    /\ now = InstantInInterval
    /\ apiKey = TRUE
    /\ registry = << >>
    /\ irradiance = {} /\ weather = {} /\ temperature = {}
    /\ consumption = {} /\ production = {} /\ pearson = {}
    /\ chain = NoChain
    /\ backfill = [start |-> None, state |-> "off", today |-> 0, current |-> 0,
                   invoked |-> << >>]
    /\ runs = 0
    /\ faults = 0
    /\ lastRun = NoRun
    /\ xs \in JitterKeys \X JitterRanges \X RoundTo
    /\ ys = << >>
    /\ r = [done |-> FALSE, value |-> None]

CallJitter ==
    /\ ~r.done
    /\ r' = [done |-> TRUE, value |-> Some(predictable_jitter(xs[1], xs[2], xs[3]))]
    /\ UNCHANGED <<now, apiKey, registry, tables, chain, backfill, runs, faults,
                   lastRun, xs, ys>>

NextJitter == CallJitter

SpecJitter == InitJitter /\ [][NextJitter]_vars

\* the range of the call in the units of the result
RangeOfCall == xs[2] * 100

(* C18: for every key, every range >= 0 and every rounding precision the   *)
(* value v returned has -range <= v <= range; a range of 0 gives 0.        *)
CE_C18 ==
    r.done =>
        /\ 0 - RangeOfCall <= r.value[1] /\ r.value[1] <= RangeOfCall
        /\ xs[2] = 0 => r.value[1] = 0

---------------------------------------------------------------------------
(* api/simulators/solar.py: SolarSimulator with any parameters, over exact *)
(* fractions                                                               *)

FMul(a, b) == Frac(a.n * b.n, a.d * b.d)
FLe(a, b) == a.n * b.d <= b.n * a.d
FMax(a, b) == IF FLe(b, a) THEN a ELSE b
Whole(k) == Frac(k, 1)

RECURSIVE FSum(_, _)
FSum(series, k) == IF k > Len(series) THEN Whole(0) ELSE FAdd(series[k], FSum(series, k + 1))

\* _cell_temperature(ambient_temp, ghi)
_cell_temperature(ambient_temp, ghi) ==
    FAdd(ambient_temp, FMul(Whole(NOCT_DELTA_T), FDivInt(ghi, G_STC)))

\* _temp_derating(t_cell)
_temp_derating(self, t_cell) ==
    FAdd(Whole(1), FMul(self.temp_coefficient, FSub(t_cell, Whole(25))))

\* a faulty variant: the output is not clamped at zero
simulate_sample_unclamped(self, ghi0, t_amb) ==
    LET ghi    == FMax(ghi0, Whole(0))
        p_dc   == FMul(self.installed_capacity_kw, FDivInt(ghi, G_STC))
        t_cell == IF t_amb # None THEN _cell_temperature(t_amb[1], ghi)
                  ELSE Whole(25)
        f_temp == _temp_derating(self, t_cell)
    IN  FMul(FMul(p_dc, f_temp), self.performance_ratio)
\* the body of the loop of simulate for one sample; t_amb is None when
\* no temperatures were given
simulate_sample(self, ghi0, t_amb) ==
    LET ghi    == FMax(ghi0, Whole(0))
        p_dc   == FMul(self.installed_capacity_kw, FDivInt(ghi, G_STC))
        t_cell == IF t_amb # None THEN _cell_temperature(t_amb[1], ghi)
                  ELSE Whole(25)
        f_temp == _temp_derating(self, t_cell)
        p_ac   == FMul(FMul(p_dc, f_temp), self.performance_ratio)
    IN  FMax(p_ac, Whole(0))

\* what a method call leaves: ValueError raised, or the value returned
Raised(op) == [op |-> op, raised |-> TRUE, out |-> << >>]
Gave(op, out) == [op |-> op, raised |-> FALSE, out |-> out]

\* simulate(irradiance, temperatures)
simulate(self, irr, temperatures) ==
    IF temperatures # None /\ Len(temperatures[1]) # Len(irr)
      THEN Raised("simulate")
      ELSE Gave("simulate",
                [i \in DOMAIN irr |->
                    simulate_sample(self, irr[i],
                                    IF temperatures # None THEN Some(temperatures[1][i])
                                    ELSE None)])

\* capacity_factor(irradiance, temperatures)
capacity_factor(self, irr, temperatures) ==
    IF irr = << >> THEN Raised("capacity_factor")
    ELSE LET series == simulate(self, irr, temperatures)
         IN  IF series.raised THEN Raised("capacity_factor")
             ELSE Gave("capacity_factor",
                       <<FMul(FSum(series.out, 1),
                              [n |-> self.installed_capacity_kw.d,
                               d |-> self.installed_capacity_kw.n * Len(series.out)])>>)

\* the simulators constructed (installed_capacity_kw > 0 and
\* 0 < performance_ratio <= 1, as __init__ demands), and the samples
Simulators ==
    [installed_capacity_kw : {Whole(500)},
     performance_ratio     : {Frac(4, 5), Whole(1)},
     temp_coefficient      : {Frac(-4, 1000), Whole(0), Frac(1, 100), Frac(-1, 10)}]
GhiSamples == {Whole(-5), Whole(0), Whole(500), Whole(1000), Whole(1200)}
TempSamples == {Whole(-30), Whole(25), Whole(60)}
MaxSamples == 2

\* xs holds the simulator and the irradiance series, ys the temperatures
\* (None when not given)
InitSolar ==
    /\ now = InstantInInterval
    /\ apiKey = TRUE
    /\ registry = << >>
    /\ irradiance = {} /\ weather = {} /\ temperature = {}
    /\ consumption = {} /\ production = {} /\ pearson = {}
    /\ chain = NoChain
    /\ backfill = [start |-> None, state |-> "off", today |-> 0, current |-> 0,
                   invoked |-> << >>]
    /\ runs = 0
    /\ faults = 0
    /\ lastRun = NoRun
    /\ \E self \in Simulators, irr \in ListsUpTo(GhiSamples, MaxSamples) :
          xs = <<self, irr>>
    /\ ys \in {None} \cup {Some(t) : t \in ListsUpTo(TempSamples, MaxSamples)}
    /\ r = [done |-> FALSE, value |-> None]

CallSimulate ==
    /\ ~r.done
    /\ r' = [done |-> TRUE, value |-> Some(simulate(xs[1], xs[2], ys))]
    /\ UNCHANGED <<now, apiKey, registry, tables, chain, backfill, runs, faults,
                   lastRun, xs, ys>>

CallCapacityFactor ==
    /\ ~r.done
    /\ r' = [done |-> TRUE, value |-> Some(capacity_factor(xs[1], xs[2], ys))]
    /\ UNCHANGED <<now, apiKey, registry, tables, chain, backfill, runs, faults,
                   lastRun, xs, ys>>

NextSolar ==
    \/ CallSimulate
    \/ CallCapacityFactor

SpecSolar == InitSolar /\ [][NextSolar]_vars

---------------------------------------------------------------------------
(* The solar simulator *)

SimulateReturned == r.done /\ r.value[1].op = "simulate" /\ ~r.value[1].raised

(* C19: simulate returns one value per irradiance sample, every value is   *)
(* at least 0, and the value is 0 for every sample whose irradiance is     *)
(* zero or negative, whatever the temperatures and the temperature         *)
(* coefficient.                                                            *)
TH_C19 ==
    SimulateReturned =>
        LET irr == xs[2]
            out == r.value[1].out
        IN  /\ Len(out) = Len(irr)
            /\ \A i \in DOMAIN out :
                  /\ FLe(Whole(0), out[i])
                  /\ FLe(irr[i], Whole(0)) => out[i] = Whole(0)

\* simulate has returned for a negative sample and a sample in full sun whose
\* derating factor is negative: both values are 0, where the unclamped
\* value of the second is below 0
WIT_C19 ==
    /\ SimulateReturned
    /\ xs[2] = <<Whole(-5), Whole(1000)>>
    /\ ys = Some(<<Whole(60), Whole(60)>>)
    /\ xs[1].temp_coefficient = Frac(-1, 10)
    /\ r.value[1].out = <<Whole(0), Whole(0)>>
    /\ ~FLe(Whole(0), simulate_sample_unclamped(xs[1], xs[2][2], Some(ys[1][2])))


CapacityFactorCalled == r.done /\ r.value[1].op = "capacity_factor"

(* C20: capacity_factor fails on an empty irradiance series and returns a  *)
(* value in [0, 1] for every series that is not empty; for a constant      *)
(* irradiance of 1000 W/m2 without temperatures the value is the           *)
(* performance ratio.                                                      *)
CE_C20 ==
    CapacityFactorCalled =>
        LET irr == xs[2]
            res == r.value[1]
        IN  /\ irr = << >> => res.raised
            /\ ~res.raised =>
                  FLe(Whole(0), res.out[1]) /\ FLe(res.out[1], Whole(1))
            /\ (irr # << >> /\ ys = None /\ \A i \in DOMAIN irr : irr[i] = Whole(G_STC)) =>
                  ~res.raised /\ res.out[1] = xs[1].performance_ratio

---------------------------------------------------------------------------
(* api/simulators/datacenter.py: DatacenterSimulator with any parameters,  *)
(* over exact fractions                                                    *)

FLt(a, b) == a.n * b.d < b.n * a.d
FMin(a, b) == IF FLe(a, b) THEN a ELSE b
\* a / b for b > 0
FDiv(a, b) == Frac(a.n * b.d, a.d * b.n)

\* a faulty variant: alpha is not looked at
post_init_raises_but_for_alpha(self) ==
    \/ ~(FLt(Whole(0), self.utilisation) /\ FLe(self.utilisation, Whole(1)))
    \/ FLt(self.pue_base, Whole(1))
    \/ FLe(self.tau_cooling_hours, Whole(0)) \/ FLe(self.tau_mass_hours, Whole(0))
    \/ FLe(self.interval_hours, Whole(0))
\* __post_init__: TRUE when a ValueError is raised
post_init_raises(self) ==
    \/ ~(FLt(Whole(0), self.utilisation) /\ FLe(self.utilisation, Whole(1)))
    \/ FLt(self.pue_base, Whole(1))
    \/ ~(FLe(Whole(0), self.alpha) /\ FLe(self.alpha, Whole(1)))
    \/ FLe(self.tau_cooling_hours, Whole(0)) \/ FLe(self.tau_mass_hours, Whole(0))
    \/ FLe(self.interval_hours, Whole(0))

\* DatacenterSimulator(..): the object, with its fields as given, or the
\* ValueError of __post_init__
DatacenterSimulator(fields) ==
    IF post_init_raises(fields) THEN Raised("init") ELSE Gave("init", fields)

\* k_short, k_long: dt / tau clamped to at most 1
lag_gain(dt, tau) == FMin(FDiv(dt, tau), Whole(1))

\* a faulty variant: the PUE does not depend on the temperature
pue_of_flat(self, t_eff) == self.pue_base
\* a faulty variant: the PUE falls below the setpoint as it rises above it
pue_of_unclamped(self, t_eff) ==
    FAdd(self.pue_base, FMul(self.pue_temp_coeff, FSub(t_eff, self.t_setpoint)))
\* the PUE of an effective temperature
pue_of(self, t_eff) ==
    FAdd(self.pue_base,
         FMul(self.pue_temp_coeff, FMax(Whole(0), FSub(t_eff, self.t_setpoint))))

\* the loop of simulate from sample i on, one record per step: the two lag
\* temperatures, the PUE and the load appended
RECURSIVE simulate_loop(_, _, _, _, _)
simulate_loop(self, temperatures, i, t_short0, t_long0) ==
    IF i > Len(temperatures) THEN << >>
    ELSE
      LET t_amb   == temperatures[i]
          k_short == lag_gain(self.interval_hours, self.tau_cooling_hours)
          k_long  == lag_gain(self.interval_hours, self.tau_mass_hours)
          t_short == FAdd(t_short0, FMul(k_short, FSub(t_amb, t_short0)))
          t_long  == FAdd(t_long0, FMul(k_long, FSub(t_amb, t_long0)))
          t_eff   == FAdd(FMul(self.alpha, t_short),
                          FMul(FSub(Whole(1), self.alpha), t_long))
          pue     == pue_of(self, t_eff)
          load    == FMul(FMul(self.it_load_kw, self.utilisation), pue)
      IN  <<[t_short |-> t_short, t_long |-> t_long, pue |-> pue, load |-> load]>>
            \o simulate_loop(self, temperatures, i + 1, t_short, t_long)

\* simulate(temperatures, t_initial): the steps, whose loads are the list
\* returned
simulate_datacenter(self, temperatures, t_initial) ==
    IF temperatures = << >> THEN << >>
    ELSE LET t0 == IF t_initial # None THEN t_initial[1] ELSE temperatures[1]
         IN  simulate_loop(self, temperatures, 1, t0, t0)

\* the values a constructor is called with, valid or not
FieldValues ==
    [it_load_kw        : {Whole(1000)},
     utilisation       : {Whole(0), Frac(1, 2), Whole(1), Frac(3, 2)},
     pue_base          : {Frac(9, 10), Whole(1), Frac(7, 5)},
     pue_temp_coeff    : {Frac(1, 100)},
     t_setpoint        : {Whole(20)},
     tau_cooling_hours : {Whole(0), Frac(1, 10), Whole(1)},
     tau_mass_hours    : {Whole(-1), Whole(6)},
     alpha             : {Frac(-1, 10), Whole(0), Frac(7, 10), Whole(1), Frac(11, 10)},
     interval_hours    : {Whole(0), Frac(1, 4)}]

\* the simulators whose simulate is called, the one of etl/consumption.py
\* among them
Datacenters ==
    [it_load_kw        : {Whole(1000)},
     utilisation       : {Frac(3, 5)},
     pue_base          : {Frac(7, 5)},
     pue_temp_coeff    : {Frac(1, 100), Whole(0), Frac(-1, 100)},
     t_setpoint        : {Whole(20)},
     tau_cooling_hours : {Frac(1, 10), Whole(1)},
     tau_mass_hours    : {Whole(6)},
     alpha             : {Whole(0), Frac(7, 10)},
     interval_hours    : {Frac(1, 4)}]

AmbientSamples == {Whole(5), Whole(20), Whole(35)}
MaxAmbient == 3

\* xs holds the constructor's fields and the temperatures, ys the initial
\* lag temperature (None when not given); r.value is what the last call
\* left
InitDatacenter ==
    /\ now = InstantInInterval
    /\ apiKey = TRUE
    /\ registry = << >>
    /\ irradiance = {} /\ weather = {} /\ temperature = {}
    /\ consumption = {} /\ production = {} /\ pearson = {}
    /\ chain = NoChain
    /\ backfill = [start |-> None, state |-> "off", today |-> 0, current |-> 0,
                   invoked |-> << >>]
    /\ runs = 0
    /\ faults = 0
    /\ lastRun = NoRun
    /\ \/ \E fields \in FieldValues : xs = <<fields, << >>>> /\ ys = None
       \/ /\ \E fields \in Datacenters, temperatures \in ListsUpTo(AmbientSamples, MaxAmbient) :
                xs = <<fields, temperatures>>
          /\ ys \in {None} \cup {Some(t) : t \in AmbientSamples}
    /\ r = [done |-> FALSE, value |-> None]

Construct ==
    /\ ~r.done /\ r.value = None
    /\ r' = [done |-> FALSE, value |-> Some(DatacenterSimulator(xs[1]))]
    /\ UNCHANGED <<now, apiKey, registry, tables, chain, backfill, runs, faults,
                   lastRun, xs, ys>>

Constructed == ~r.done /\ r.value # None /\ ~r.value[1].raised

\* sim.simulate(temperatures, t_initial) on the object constructed
CallSimulateDatacenter ==
    /\ Constructed
    /\ r' = [done |-> TRUE,
             value |-> Some(Gave("simulate", simulate_datacenter(r.value[1].out, xs[2], ys)))]
    /\ UNCHANGED <<now, apiKey, registry, tables, chain, backfill, runs, faults,
                   lastRun, xs, ys>>

\* cold = sim.simulate([c] * n); hot = sim.simulate([h] * n) on the object
\* constructed, as test_hotter_ambient_yields_higher_load does
CallSimulateTwice ==
    /\ Constructed
    /\ xs[2] = << >> /\ ys = None
    /\ \E c \in AmbientSamples, h \in AmbientSamples, n \in 1..MaxAmbient :
          /\ FLt(c, h)
          /\ r' = [done |-> TRUE,
                   value |-> Some(Gave("compare",
                       [cold |-> c, hot |-> h,
                        colder |-> simulate_datacenter(r.value[1].out, [k \in 1..n |-> c], None),
                        hotter |-> simulate_datacenter(r.value[1].out, [k \in 1..n |-> h], None)]))]
    /\ UNCHANGED <<now, apiKey, registry, tables, chain, backfill, runs, faults,
                   lastRun, xs, ys>>

NextDatacenter ==
    \/ Construct
    \/ CallSimulateDatacenter
    \/ CallSimulateTwice

SpecDatacenter == InitDatacenter /\ [][NextDatacenter]_vars

---------------------------------------------------------------------------
(* The datacenter simulator *)

DatacenterSimulated == r.done /\ r.value[1].op = "simulate"

\* every ambient temperature, and the initial lag temperature when given,
\* is at or below the setpoint
FreeCooling ==
    /\ \A i \in DOMAIN xs[2] : FLe(xs[2][i], xs[1].t_setpoint)
    /\ ys # None => FLe(ys[1], xs[1].t_setpoint)

(* C21: if every ambient temperature of the series, and the initial lag    *)
(* temperature when one is given, is at or below the setpoint, then at     *)
(* every step both lag temperatures are at or below the setpoint, the PUE  *)
(* is pue_base, and the load is it_load_kw * utilisation * pue_base.       *)
TH_C21 ==
    (DatacenterSimulated /\ FreeCooling) =>
        LET self  == xs[1]
            steps == r.value[1].out
        IN  /\ Len(steps) = Len(xs[2])
            /\ \A i \in DOMAIN steps :
                  /\ FLe(steps[i].t_short, self.t_setpoint)
                  /\ FLe(steps[i].t_long, self.t_setpoint)
                  /\ steps[i].pue = self.pue_base
                  /\ steps[i].load
                       = FMul(FMul(self.it_load_kw, self.utilisation), self.pue_base)

\* simulate has returned for a series that rises from 5 degrees to the
\* setpoint, begun from a lag temperature of 5 degrees: the lags are still
\* on their way up at the last step
WIT_C21 ==
    /\ DatacenterSimulated /\ FreeCooling
    /\ xs[2] = <<Whole(5), Whole(20), Whole(20)>>
    /\ ys = Some(Whole(5))
    /\ xs[1].pue_temp_coeff = Frac(1, 100)
    /\ FLt(r.value[1].out[3].t_long, r.value[1].out[3].t_short)
    /\ FLt(r.value[1].out[3].t_short, Whole(20))


DatacenterCompared == r.done /\ r.value[1].op = "compare"

FinalLoad(steps) == steps[Len(steps)].load

ValidFields(f) ==
    /\ f.utilisation.n > 0 /\ f.utilisation.n <= f.utilisation.d
    /\ f.pue_base.n >= f.pue_base.d
    /\ f.alpha.n >= 0 /\ f.alpha.n <= f.alpha.d
    /\ f.tau_cooling_hours.n > 0 /\ f.tau_mass_hours.n > 0
    /\ f.interval_hours.n > 0

(* C23: the construction of a DatacenterSimulator succeeds exactly when    *)
(* utilisation is in (0, 1], pue_base >= 1, alpha is in [0, 1], both time  *)
(* constants are > 0 and the interval is > 0, and then the object has the  *)
(* parameters as given; otherwise it raises, and simulate runs only on an  *)
(* object whose construction succeeded.                                    *)
TH_C23 ==
    /\ (~r.done /\ r.value # None) =>
          /\ r.value[1].op = "init"
          /\ r.value[1].raised <=> ~ValidFields(xs[1])
          /\ ~r.value[1].raised => r.value[1].out = xs[1]
    /\ r.done => ValidFields(xs[1])

\* the construction has raised for parameters of which only alpha, 1.1, is
\* out of its range
WIT_C23 ==
    /\ ~r.done /\ r.value # None
    /\ r.value[1].raised
    /\ xs[1].alpha = Frac(11, 10)
    /\ ValidFields([xs[1] EXCEPT !.alpha = Whole(1)])


\* ---------------------------------------------------------------------------
\* api/simulators/weather.py: WeatherSimulator over exact fractions, with the
\* cosine tabulated to four decimals at the 96 grid angles of a day
\* ---------------------------------------------------------------------------

\* lib/time_util.py INTERVAL_MINUTES, per time slice
IntervalMinutesOf(time_slice) ==
    CASE time_slice = "hourly" -> 60
      [] time_slice = "30m" -> 30
      [] time_slice = "15m" -> 15

\* lib/time_util.py interval_hours, which weather.py imports under the name
\* get_interval_hours
get_interval_hours(time_slice) == Frac(IntervalMinutesOf(time_slice), 60)

\* 10000 * cos(2 * pi * k / 96) for k = 0 .. 24, rounded
CosQuarter ==
    << 10000, 9979, 9914, 9808, 9659, 9469, 9239, 8969, 8660, 8315, 7934,
       7518, 7071, 6593, 6088, 5556, 5000, 4423, 3827, 3214, 2588, 1951,
       1305, 654, 0 >>

\* math.cos at the angle 2 * pi * j / 96
Cos96(j) ==
    LET k == j % 96
    IN  IF k <= 24 THEN Frac(CosQuarter[k + 1], 10000)
        ELSE IF k <= 48 THEN Frac(0 - CosQuarter[48 - k + 1], 10000)
        ELSE IF k <= 72 THEN Frac(0 - CosQuarter[k - 48 + 1], 10000)
        ELSE Frac(CosQuarter[96 - k + 1], 10000)

\* math.sin at the angle 2 * pi * j / 96
Sin96(j) == Cos96(j + 72)

\* WeatherSimulator._fit: the coefficients (a, b, c) of the sinusoid
_fit(profile) ==
    [a |-> FDivInt(FAdd(FAdd(profile.night, profile.morning),
                        FAdd(profile.afternoon, profile.evening)), 4),
     b |-> FDivInt(FSub(profile.night, profile.afternoon), 2),
     c |-> FDivInt(FSub(profile.morning, profile.evening), 2)]

\* WeatherSimulator._evaluate at t hours, t a multiple of a quarter hour:
\* the angle 2 * pi * t / 24 is 2 * pi * (4 t) / 96
_evaluate(t, a, b, c) ==
    LET j == FMulInt(t, 4).n
    IN  FAdd(a, FAdd(FMul(b, Cos96(j)), FMul(c, Sin96(j))))

\* steps = round(24.0 / self.interval_hours)
StepsOf(self) == FDiv(Whole(24), get_interval_hours(self.interval)).n

\* the clamping of simulate_day: max with t_min first, then min with t_max
clamp_into(temp, profile) ==
    LET lo == IF profile.t_min # None THEN FMax(temp, profile.t_min[1]) ELSE temp
    IN  IF profile.t_max # None THEN FMin(lo, profile.t_max[1]) ELSE lo

\* simulate_day with the clamping done whatever self.clamp says
simulate_day_always_clamped(self, profile) ==
    LET f == _fit(profile)
    IN  [i \in 1 .. StepsOf(self) |->
            clamp_into(_evaluate(FMulInt(get_interval_hours(self.interval), i - 1),
                                 f.a, f.b, f.c), profile)]

\* simulate_day with the clamping left out
simulate_day_never_clamped(self, profile) ==
    LET f == _fit(profile)
    IN  [i \in 1 .. StepsOf(self) |->
            _evaluate(FMulInt(get_interval_hours(self.interval), i - 1),
                      f.a, f.b, f.c)]

\* WeatherSimulator.simulate_day
simulate_day(self, profile) ==
    LET f == _fit(profile)
    IN  [i \in 1 .. StepsOf(self) |->
            LET temp == _evaluate(FMulInt(get_interval_hours(self.interval), i - 1),
                                  f.a, f.b, f.c)
            IN  IF self.clamp THEN clamp_into(temp, profile) ELSE temp]

RECURSIVE extend_each(_, _, _)
\* the loop of WeatherSimulator.simulate: result.extend(simulate_day(profile))
extend_each(self, profiles, result) ==
    IF profiles = << >> THEN result
    ELSE extend_each(self, Tail(profiles),
                     result \o simulate_day(self, Head(profiles)))

\* WeatherSimulator.simulate
WeatherSimulator_simulate(self, profiles) ==
    IF profiles = << >> THEN Raised("simulate_weather")
    ELSE Gave("simulate_weather", extend_each(self, profiles, << >>))

\* DailyProfile of lib/types.py
DailyProfile(morning, afternoon, evening, night, t_min, t_max) ==
    [morning |-> Whole(morning), afternoon |-> Whole(afternoon),
     evening |-> Whole(evening), night |-> Whole(night),
     t_min |-> t_min, t_max |-> t_max]

DailyProfiles ==
    { DailyProfile(10, 20, 15, 5, None, None),
      DailyProfile(10, 20, 15, 5, Some(Whole(8)), Some(Whole(18))),
      DailyProfile(10, 20, 15, 5, Some(Whole(12)), None),
      DailyProfile(10, 20, 15, 5, None, Some(Whole(14))),
      DailyProfile(0 - 3, 4, 1, 0 - 6, Some(Whole(0 - 4)), Some(Whole(2))),
      DailyProfile(10, 20, 15, 5, Some(Whole(18)), Some(Whole(8))) }

MaxProfiles == 2

WeatherSimulators ==
    [interval : {"hourly", "30m", "15m"}, clamp : BOOLEAN]

InitWeatherSim ==
    /\ now = 0
    /\ apiKey \in {TRUE}
    /\ registry = << >>
    /\ irradiance = {} /\ weather = {} /\ temperature = {}
    /\ consumption = {} /\ production = {} /\ pearson = {}
    /\ chain = NoChain
    /\ backfill = [state |-> "off", start |-> None]
    /\ runs = 0 /\ faults = 0
    /\ lastRun = NoRun
    /\ xs \in WeatherSimulators
    /\ ys \in ListsUpTo(DailyProfiles, MaxProfiles)
    /\ r = [done |-> FALSE, value |-> None]

CallSimulateWeather ==
    /\ ~r.done
    /\ r' = [done |-> TRUE, value |-> Some(WeatherSimulator_simulate(xs, ys))]
    /\ UNCHANGED <<now, apiKey, registry, tables, chain, backfill, runs,
                   faults, lastRun, xs, ys>>

NextWeatherSim == CallSimulateWeather

SpecWeatherSim == InitWeatherSim /\ [][NextWeatherSim]_vars

WeatherSimulated ==
    /\ r.done
    /\ r.value # None
    /\ r.value[1].op = "simulate_weather"

\* the part of the returned list produced for the k-th profile
SegmentOf(out, k, steps) == SubSeq(out, (k - 1) * steps + 1, k * steps)

\* every value lies between the minimum and the maximum the profile supplies
WithinSupplied(seg, profile) ==
    \A i \in 1 .. Len(seg) :
        /\ profile.t_min # None => FLe(profile.t_min[1], seg[i])
        /\ profile.t_max # None => FLe(seg[i], profile.t_max[1])

\* empty list raises; otherwise one series per profile, in input order, of
\* 24 / interval_hours values each
ShapeOfSimulate ==
    WeatherSimulated =>
        LET res == r.value[1]
            steps == (24 * 60) \div IntervalMinutesOf(xs.interval)
        IN  /\ res.raised <=> ys = << >>
            /\ ~res.raised =>
                /\ Len(res.out) = steps * Len(ys)
                /\ \A k \in 1 .. Len(ys) :
                      SegmentOf(res.out, k, steps) \in
                          { simulate_day_always_clamped(xs, ys[k]),
                            simulate_day_never_clamped(xs, ys[k]) }

\* C24 as stated: WeatherSimulator.simulate fails on an empty profile list
\* and otherwise returns the per-profile series concatenated in input order,
\* 24/interval_hours values per profile, and for every profile that supplies
\* a minimum and/or maximum every value produced for it is >= the minimum
\* and <= the maximum.
CE_C24 ==
    /\ ShapeOfSimulate
    /\ (WeatherSimulated /\ ~r.value[1].raised) =>
          \A k \in 1 .. Len(ys) :
              WithinSupplied(SegmentOf(r.value[1].out, k,
                                       (24 * 60) \div IntervalMinutesOf(xs.interval)),
                             ys[k])

\* C24 amended: WeatherSimulator.simulate fails on an empty profile list and
\* otherwise returns the per-profile series concatenated in input order,
\* 24/interval_hours values per profile.  Only a simulator built with
\* clamp = True clamps: then every value of a profile is <= the supplied
\* maximum, and >= the supplied minimum when that minimum does not exceed the
\* supplied maximum.  A simulator built with clamp = False (the default)
\* returns the fitted sinusoid unclamped.
TH_C24 ==
    /\ ShapeOfSimulate
    /\ (WeatherSimulated /\ ~r.value[1].raised) =>
          \A k \in 1 .. Len(ys) :
              LET seg == SegmentOf(r.value[1].out, k,
                                   (24 * 60) \div IntervalMinutesOf(xs.interval))
                  p == ys[k]
              IN  IF xs.clamp
                  THEN \A i \in 1 .. Len(seg) :
                          /\ p.t_max # None => FLe(seg[i], p.t_max[1])
                          /\ (p.t_min # None /\ (p.t_max = None \/ FLe(p.t_min[1], p.t_max[1])))
                                => FLe(p.t_min[1], seg[i])
                  ELSE seg = simulate_day_never_clamped(xs, p)

\* a clamping simulator returned two days, the second clamped at both ends
WIT_C24 ==
    /\ WeatherSimulated
    /\ ~r.value[1].raised
    /\ xs.clamp
    /\ Len(ys) = 2
    /\ ys[1] # ys[2]
    /\ ys[2].t_min # None /\ ys[2].t_max # None
    /\ LET steps == (24 * 60) \div IntervalMinutesOf(xs.interval)
           seg == SegmentOf(r.value[1].out, 2, steps)
           raw == simulate_day_never_clamped(xs, ys[2])
       IN  /\ \E i \in 1 .. steps : FLt(ys[2].t_max[1], raw[i]) /\ seg[i] = ys[2].t_max[1]
           /\ \E i \in 1 .. steps : FLt(raw[i], ys[2].t_min[1]) /\ seg[i] = ys[2].t_min[1]


\* ---------------------------------------------------------------------------
\* etl/pearson.py: the range of the coefficient _pearson returns
\* ---------------------------------------------------------------------------

\* ys is the linear function slope * x + offset of xs, for some integer slope
\* of the given sign and some integer offset
LinearOf(sign) ==
    /\ Len(xs) = Len(ys)
    /\ \E slope \in 1 .. 40, offset \in -40 .. 40 :
          \A i \in 1 .. Len(xs) : ys[i] = sign * slope * xs[i] + offset

NonConstant(seq) == \E i, j \in 1 .. Len(seq) : seq[i] # seq[j]

\* C25: whenever _pearson returns a coefficient r = num / sqrt(den_sq) and
\* not None, -1 <= r <= 1, that is, the squared numerator does not exceed
\* the product of the two variance terms; and r is +1 (respectively -1) when
\* the second list is an increasing (respectively decreasing) linear function
\* of a non-constant first list.
CE_C25 ==
    r.done =>
        /\ r.value # None =>
              r.value[1].num * r.value[1].num <= r.value[1].den_x * r.value[1].den_y
        /\ \A sign \in {1, -1} :
              (Len(xs) >= 2 /\ NonConstant(xs) /\ LinearOf(sign)) =>
                  /\ r.value # None
                  /\ sign * r.value[1].num > 0
                  /\ r.value[1].num * r.value[1].num = r.value[1].den_x * r.value[1].den_y


\* ---------------------------------------------------------------------------
\* etl/production.py: the body of the loop over customers for one customer,
\* on a day of ProductionHours hours, for any stored irradiance and weather
\* ---------------------------------------------------------------------------

ProductionHours == 2

\* _timestamps_for_day over ProductionHours hours
ProductionTimestamps ==
    [i \in 1 .. (ProductionHours * MINUTES_IN_HOUR) \div interval_minutes |->
        interval_minutes * (i - 1)]

\* a faulty variant: a customer whose weather has a gap is skipped
customer_production_skipping_gaps(c, irradiance_rows, weather_rows_, timestamps) ==
    LET irr          == [k \in DOMAIN irradiance_rows |-> irradiance_rows[k].irradiance]
        temperatures == _map_weather_temps(weather_rows_, timestamps)
        power_series == SolarSimulator_simulate(irr, temperatures)
        rows == {[customer_id |-> c.customer_id, ts |-> timestamps[k],
                  power |-> power_series[k]]
                    : k \in 1 .. Min(Len(timestamps), Len(power_series))}
    IN  IF irradiance_rows = << >> \/ Len(irradiance_rows) # Len(timestamps)
             \/ temperatures = None
          THEN [skipped |-> TRUE, temperatures |-> None, rows |-> {}]
          ELSE [skipped |-> FALSE, temperatures |-> temperatures, rows |-> rows]

\* run, lines 103-168: the irradiance checks, the weather lookup, the
\* simulation and the rows handed to upsert_production_bulk for customer c;
\* timestamps holds the expected readings of the day
customer_production(c, irradiance_rows, weather_rows_, timestamps) ==
    LET irr          == [k \in DOMAIN irradiance_rows |-> irradiance_rows[k].irradiance]
        temperatures == _map_weather_temps(weather_rows_, timestamps)
        power_series == SolarSimulator_simulate(irr, temperatures)
        rows == {[customer_id |-> c.customer_id, ts |-> timestamps[k],
                  power |-> power_series[k]]
                    : k \in 1 .. Min(Len(timestamps), Len(power_series))}
    IN  IF irradiance_rows = << >>
          THEN [skipped |-> TRUE, temperatures |-> None, rows |-> {}]
        ELSE IF Len(irradiance_rows) # Len(timestamps)
          THEN [skipped |-> TRUE, temperatures |-> None, rows |-> {}]
        ELSE [skipped |-> FALSE, temperatures |-> temperatures, rows |-> rows]

GhiLevels == {0, 500, 1000}
HourTemps == {-5, 25, 45}

\* the stored irradiance of the day: a reading per slot, one level per hour;
\* or one reading short; or none
StoredIrradiance ==
    LET full(g) == [k \in DOMAIN ProductionTimestamps |->
                      [loc |-> "A", ts |-> ProductionTimestamps[k],
                       irradiance |-> g[_floor_to_hour(ProductionTimestamps[k]) \div MINUTES_IN_HOUR]]]
        levels  == [0 .. ProductionHours - 1 -> GhiLevels]
    IN  {full(g) : g \in levels}
          \cup {SubSeq(full(g), 1, Len(ProductionTimestamps) - 1) : g \in levels}
          \cup {<< >>}

\* the stored weather of the day, as the weather stage leaves it: per hour
\* either no row or the four slots with the hour's reading, and for the
\* first hour possibly the midnight slot alone, written by the run for the
\* day before
StoredWeather ==
    LET slots(hr) == {t \in SeqToSet(ProductionTimestamps) : _floor_to_hour(t) = hr}
        hourly == [0 .. ProductionHours - 1 -> {Some(t) : t \in HourTemps} \cup {None}]
        rowsOf(g, alone) ==
            {[loc |-> "A", ts |-> t, temperature |-> g[_floor_to_hour(t) \div MINUTES_IN_HOUR][1]]
               : t \in {t \in SeqToSet(ProductionTimestamps) :
                          /\ g[_floor_to_hour(t) \div MINUTES_IN_HOUR] # None
                          /\ (alone /\ _floor_to_hour(t) = 0) => t = 0}}
    IN  {OrderByTimestamp(rowsOf(g, alone)) : g \in hourly, alone \in BOOLEAN}

InitProduction ==
    /\ now = 0
    /\ apiKey \in {TRUE}
    /\ registry = << [customer_id |-> 1, loc |-> "A"] >>
    /\ irradiance = {} /\ weather = {} /\ temperature = {}
    /\ consumption = {} /\ production = {} /\ pearson = {}
    /\ chain = NoChain
    /\ backfill = [state |-> "off", start |-> None]
    /\ runs = 0 /\ faults = 0
    /\ lastRun = NoRun
    /\ xs \in StoredIrradiance
    /\ ys \in StoredWeather
    /\ r = [done |-> FALSE, value |-> None]

CallCustomerProduction ==
    /\ ~r.done
    /\ r' = [done |-> TRUE,
             value |-> Some(customer_production(registry[1], xs, ys, ProductionTimestamps))]
    /\ UNCHANGED <<now, apiKey, registry, tables, chain, backfill, runs,
                   faults, lastRun, xs, ys>>

NextProduction == CallCustomerProduction

SpecProduction == InitProduction /\ [][NextProduction]_vars

\* the customer has a full day of irradiance and the body has run
FullDayProduced == r.done /\ Len(xs) = Len(ProductionTimestamps)

\* the stored weather has a reading for the hour of timestamp t
HourStored(t) == \E k \in DOMAIN ys : _floor_to_hour(ys[k].ts) = _floor_to_hour(t)

ApiChainStarts ==
    /\ chain' # chain
    /\ chain'.kind = "api"
    /\ chain'.started = << >>
    /\ chain'.pc = StagesOf("api")[1]

\* an execution of _run_etl_chain is under way
ApiChainRunning == chain.kind = "api" /\ ~ChainFree

WeatherRanForPastDate ==
    /\ chain.kind = "cli"
    /\ chain.started # << >>
    /\ Last(chain.started) = "weather"
    /\ lastRun.stage = "weather"
    /\ chain.date < DateOf(chain.at)

\* C28: for a target date D wholly in the past, the weather stage persists
\* rows only for timestamps on the 15-minute grid of D (00:00 through
\* 23:45), at most one per slot of D for each location, the slots of one
\* hour carrying the same reading; it writes no row of another date.
CE_C28 ==
    WeatherRanForPastDate =>
        /\ TimesOf(lastRun.wrote) \subseteq Slots(chain.date)
        /\ \A loc \in Locations :
              Cardinality({x \in lastRun.wrote : x.loc = loc}) <= intervals_per_day
        /\ \A x, y \in lastRun.wrote :
              (x.loc = y.loc /\ _floor_to_hour(x.ts) = _floor_to_hour(y.ts))
                 => x.temperature = y.temperature


\* ---------------------------------------------------------------------------
\* etl/irradiance.py: the rows the stage persists for a date other than today
\* ---------------------------------------------------------------------------

\* the irradiance stage of the chain has just run, for a date that was over
\* when the chain began
IrradianceRanForPastDate ==
    /\ chain.started # << >>
    /\ Last(chain.started) = "irradiance"
    /\ lastRun.stage = "irradiance"
    /\ chain.date = lastRun.date
    /\ chain.date < DateOf(chain.at)

\* the rows a stage run wrote for a location
WroteFor(loc) == {x \in lastRun.wrote : x.loc = loc}

\* C29: for a target date other than today the irradiance stage persists
\* for each unique location either one reading for every slot of the date
\* (intervals_per_day of them) or none: a response with any other number of
\* readings is discarded whole.
TH_C29 ==
    IrradianceRanForPastDate =>
        \A loc \in Locations :
            /\ Cardinality(WroteFor(loc)) \in {0, intervals_per_day}
            /\ WroteFor(loc) # {} => TimesOf(WroteFor(loc)) = Slots(chain.date)
            /\ loc \in lastRun.bad => WroteFor(loc) = {}

\* the stage ran for a past date: the response for one location was not a
\* full day and left no row, the other location got its full day
WIT_C29 ==
    /\ IrradianceRanForPastDate
    /\ ~lastRun.raised
    /\ \E loc \in lastRun.bad : WroteFor(loc) = {}
    /\ \E loc \in Locations : Cardinality(WroteFor(loc)) = intervals_per_day


\* ---------------------------------------------------------------------------
\* etl/production.py: the customers the stage writes rows for
\* ---------------------------------------------------------------------------

\* the irradiance readings stored for the location of customer c on day D
StoredReadings(c, D) == {y \in irradiance : y.loc = LocOf(c) /\ y.ts \in Slots(D)}

\* the rows a stage run wrote for customer c
WroteForCustomer(c) == {x \in lastRun.wrote : x.customer_id = c}

====
